---- MODULE Spec2Model ----
(***************************************************************************)
(* Model of the content-acquisition and AI-response layer of AiBuildCoach. *)
(*                                                                         *)
(*   modules/analyse_html.py   fetch_raw_html, is_replit_url               *)
(*   utils/ai_wrapper.py       smart_ai, safe_json_ai, clean_ai_json,      *)
(*                             fix_truncated_json, clear_cache,            *)
(*                             get_cache_stats                             *)
(*   main.py                   full_analysis, competitor_ai_check          *)
(*                                                                         *)
(* Text whose content the code inspects (URLs, response bodies, prompts,   *)
(* model output) is a sequence of one-character strings.  Messages that    *)
(* are only stored and compared (error texts) are strings.                 *)
(* An Optional value is None or Some(v).                                   *)
(***************************************************************************)
EXTENDS Integers, Sequences, FiniteSets, TLC

VARIABLES
    httpx_SSLError,   \* whether the installed httpx exports the name SSLError
    fetch,            \* the activation of fetch_raw_html
    twin,             \* a second activation, run against the same remote
    ai_cache,         \* _ai_cache: cache key -> model text
    ai_cache_order,   \* the keys of _ai_cache in the order of their insertion
    ai,               \* the activation of smart_ai
    calls,            \* the finished calls on the AI wrapper, oldest first
    handler,          \* the activation of an endpoint of main.py
    extract,          \* the activation of extract_limited_html
    workflow,         \* the workflow dict of the guided workflow
    tasks             \* the requests the server has received, in the order of their arrival

fetcher_vars == <<httpx_SSLError, fetch, twin>>
wrapper_vars == <<ai_cache, ai_cache_order, ai, calls, handler, extract>>
app_vars == <<workflow, tasks>>
vars ==
    <<httpx_SSLError, fetch, twin, ai_cache, ai_cache_order, ai, calls, handler, extract,
      workflow, tasks>>

-----------------------------------------------------------------------------
(* Bounds of the model *)

MaxUrlLen == 2        \* generated URLs have at most this many characters
MaxRetry == 2         \* the largest max_retry a call passes
MaxCalls == 2         \* calls on the AI wrapper in one behaviour
MaxWarm == 11         \* entries put in the cache before the calls of a behaviour
MaxParts == 2         \* pieces an HTML text given to extract_limited_html is made of
MaxLines == 3         \* lines of a model text with fences

-----------------------------------------------------------------------------
(* Values *)

None == [none |-> TRUE]
Some(v) == [none |-> FALSE, v |-> v]

\* Python truthiness of an Optional[str]: None and "" are falsy
Truthy(x) == ~x.none /\ x.v # ""

\* x or d, for an Optional[str] x and a str d
OrElse(x, d) == IF Truthy(x) THEN x.v ELSE d

Rep(c, n) == [i \in 1..n |-> c]

Last(s) == s[Len(s)]

RECURSIVE Str(_)
\* the string written by a sequence of characters
Str(s) == IF s = <<>> THEN "" ELSE Head(s) \o Str(Tail(s))

RECURSIVE SeqsUpTo(_, _)
\* all sequences over S of length at most n
SeqsUpTo(S, n) ==
    IF n = 0 THEN {<<>>}
    ELSE LET shorter == SeqsUpTo(S, n - 1)
         IN  shorter \cup {Append(s, c) : s \in shorter, c \in S}

-----------------------------------------------------------------------------
(* str methods used by the code *)

Whitespace == {" ", "\n", "\t"}

RECURSIVE LStrip(_)
LStrip(s) == IF s # <<>> /\ Head(s) \in Whitespace THEN LStrip(Tail(s)) ELSE s

RECURSIVE RStrip(_)
RStrip(s) ==
    IF s # <<>> /\ Last(s) \in Whitespace THEN RStrip(SubSeq(s, 1, Len(s) - 1)) ELSE s

\* str.strip()
Strip(s) == RStrip(LStrip(s))

\* str.find(c), 1-based; 0 when c does not occur
Find(s, c) ==
    IF \E i \in 1..Len(s) : s[i] = c
    THEN CHOOSE i \in 1..Len(s) : s[i] = c /\ \A j \in 1..(i - 1) : s[j] # c
    ELSE 0

\* s.startswith(pat)
StartsWith(s, pat) == Len(s) >= Len(pat) /\ SubSeq(s, 1, Len(pat)) = pat

RECURSIVE Split(_, _)
\* s.split(c)
Split(s, c) ==
    LET i == Find(s, c)
    IN  IF i = 0 THEN <<s>>
        ELSE <<SubSeq(s, 1, i - 1)>> \o Split(SubSeq(s, i + 1, Len(s)), c)

RECURSIVE Join(_, _)
\* c.join(parts)
Join(parts, c) ==
    IF parts = <<>> THEN <<>>
    ELSE IF Len(parts) = 1 THEN parts[1]
    ELSE parts[1] \o <<c>> \o Join(Tail(parts), c)

\* pat in s
Contains(s, pat) ==
    \E i \in 0..(Len(s) - Len(pat)) : SubSeq(s, i + 1, i + Len(pat)) = pat

UpperToLower ==
    [c \in {"E", "H", "L", "P", "R", "S", "T"} |->
        CASE c = "E" -> "e" [] c = "H" -> "h" [] c = "L" -> "l" [] c = "P" -> "p"
          [] c = "R" -> "r" [] c = "S" -> "s" [] c = "T" -> "t"]

\* str.lower()
Lower(s) == [i \in 1..Len(s) |-> IF s[i] \in DOMAIN UpperToLower THEN UpperToLower[s[i]] ELSE s[i]]

-----------------------------------------------------------------------------
(* urllib.parse.urlparse, as far as fetch_raw_html depends on it: the      *)
(* scheme it finds, and the ValueError it raises for an unbalanced bracket *)
(* in the network location.                                                *)

Letters == {"a", "c", "d", "e", "f", "h", "i", "k", "l", "o", "p", "r", "s", "t", "v", "x",
            "E", "H", "L", "P", "R", "S", "T"}
Digits == {"0", "8"}
scheme_chars == Letters \cup Digits \cup {"+", "-", "."}

\* _splitnetloc(url, 2): the text between the leading // and the next / ? or #
splitnetloc(rest) ==
    LET after == SubSeq(rest, 3, Len(rest))
        stops == {i \in 1..Len(after) : after[i] \in {"/", "?", "#"}}
        delim == IF stops = {} THEN Len(after) + 1
                 ELSE CHOOSE i \in stops : \A j \in stops : i <= j
    IN  SubSeq(after, 1, delim - 1)

urlparse(url) ==
    LET u == LStrip(url)
        i == Find(u, ":")
        found == /\ i > 1
                 /\ u[1] \in Letters
                 /\ \A k \in 1..(i - 1) : u[k] \in scheme_chars
        scheme == IF found THEN Lower(SubSeq(u, 1, i - 1)) ELSE <<>>
        rest == IF found THEN SubSeq(u, i + 1, Len(u)) ELSE u
        netloc == IF Len(rest) >= 2 /\ SubSeq(rest, 1, 2) = <<"/", "/">>
                  THEN splitnetloc(rest) ELSE <<>>
        open == \E k \in 1..Len(netloc) : netloc[k] = "["
        close == \E k \in 1..Len(netloc) : netloc[k] = "]"
    IN  [ValueError |-> (open /\ ~close) \/ (close /\ ~open),
         scheme |-> scheme, netloc |-> netloc]

-----------------------------------------------------------------------------
(* Inputs: URLs *)

Https == <<"h", "t", "t", "p", "s", ":", "/", "/">>
http == <<"h", "t", "t", "p">>
https == <<"h", "t", "t", "p", "s">>

UrlAlphabet == {"a", ":", "/", " "}

CuratedUrls ==
    { <<"a", ".", "i", "o">>,
      Https \o <<"a", ".", "i", "o">>,
      <<"h", "t", "t", "p", ":", "/", "/", "a", ".", "i", "o">>,
      <<"H", "T", "T", "P", ":", "/", "/", "a", ".", "i", "o">>,
      <<"f", "t", "p", ":", "/", "/", "a", ".", "i", "o">>,
      <<" ", "f", "t", "p", ":", "/", "/", "a">>,
      <<"a", ".", "i", "o", ":", "8", "0">>,
      <<"/", "/", "[">>,
      <<"[">>,
      <<"f", "t", "p", ":", "/", "/", "[">>,
      <<"x", ".", "r", "e", "p", "l", "i", "t", ".", "d", "e", "v">>,
      <<"x", ".", "R", "E", "P", "L", ".", "c", "o">>,
      Https \o <<"a", ".", "i", "o", "/", "s", "p", "o", "c", "k", ".">> }

Urls == SeqsUpTo(UrlAlphabet, MaxUrlLen) \cup CuratedUrls

-----------------------------------------------------------------------------
(* Inputs: what the remote does on one request *)

MinBodyLen == 50
NearMin == {0, MinBodyLen - 1, MinBodyLen, MinBodyLen + 1}
Bodies == {Rep("x", n) : n \in NearMin}
Statuses == {200, 204, 404}

reason_phrase(status) ==
    CASE status = 200 -> "OK"
      [] status = 204 -> "No Content"
      [] status = 404 -> "Not Found"

Response(status, body) == [kind |-> "response", status |-> status, body |-> body, msg |-> ""]
Raise(kind, msg) == [kind |-> kind, status |-> 0, body |-> <<>>, msg |-> msg]
NoOutcome == Raise("none", "")

Outcomes ==
    {Response(s, b) : s \in Statuses, b \in Bodies}
    \cup { Raise("SSLError", "certificate verify failed"),
           Raise("ConnectError", "connection refused"),
           Raise("TimeoutException", "timed out"),
           Raise("Exception", ""),
           Raise("Exception", "connection reset") }

\* how a response or failure reads to the caller of the request
OutcomeClass(o) ==
    CASE o.kind = "response" /\ o.status = 200 /\ Len(o.body) >= 50 -> "ok"
      [] o.kind = "response" /\ o.status = 200 /\ Len(o.body) < 50 -> "short"
      [] o.kind = "response" /\ o.status # 200 -> "non200"
      [] o.kind \in {"SSLError", "ConnectError"} -> "tls"
      [] o.kind = "TimeoutException" -> "timeout"
      [] OTHER -> "other"

-----------------------------------------------------------------------------
(* modules/analyse_html.py *)

max_attempts == 3
default_timeout == 20
replit_timeout == 45

replit_patterns ==
    { <<".", "r", "e", "p", "l", "i", "t", ".">>,
      <<"s", "p", "o", "c", "k", ".">>,
      <<".", "r", "e", "p", "l", ".", "c", "o">>,
      <<"r", "e", "p", "l", "i", "t", ".", "d", "e", "v">> }

is_replit_url(url) == \E x \in replit_patterns : Contains(Lower(url), x)

\* the result dict as created at the top of fetch_raw_html
new_result == [success |-> FALSE, status_code |-> None, html |-> <<>>, error |-> ""]

\* an activation that has not been called yet
Idle ==
    [pc |-> "idle", input |-> <<>>, url |-> <<>>, timeout |-> 0, attempt |-> 0,
     last_error |-> None, result |-> new_result, events |-> <<>>, got |-> NoOutcome]

\* return result
returned(st, result) == [st EXCEPT !.pc = "done", !.result = result]

\* what the activation did, in order: the requests it issued and its sleeps
Get(st, verify, o) ==
    [kind |-> "get", url |-> st.url, verify |-> verify, timeout |-> st.timeout,
     outcome |-> OutcomeClass(o)]
Sleep == [kind |-> "sleep", url |-> <<>>, verify |-> FALSE, timeout |-> 1, outcome |-> "none"]

issue(st, verify, o) ==
    [st EXCEPT !.events = Append(st.events, Get(st, verify, o)), !.got = o]

\* a variant without the default text: result["error"] = last_error
exhausted_no_default(st) ==
    returned(st, [st.result EXCEPT !.error = IF st.last_error.none THEN "" ELSE st.last_error.v])

\* the code after the loop: result["error"] = last_error or "Failed after 3 attempts"
exhausted(st) ==
    returned(st, [st.result EXCEPT !.error = OrElse(st.last_error, "Failed after 3 attempts")])

\* time.sleep(1), then the next iteration of for attempt in range(3)
next_attempt(st) ==
    LET slept == [st EXCEPT !.events = Append(st.events, Sleep), !.attempt = st.attempt + 1]
    IN  IF slept.attempt < max_attempts
        THEN [slept EXCEPT !.pc = "verified"]
        ELSE exhausted(slept)

\* the outer handler: except Exception as e
unexpected_error(st, type, msg) ==
    returned(st, [st.result EXCEPT !.error = "Unexpected error: " \o type \o ": " \o msg])

\* the outer handler: except ValueError as e
invalid_url(st, msg) ==
    returned(st, [st.result EXCEPT !.error = "Invalid URL: " \o msg])

\* a variant of fetch_entry without the test of the scheme
fetch_entry_any_scheme(url) ==
    LET st == [Idle EXCEPT !.input = url, !.url = url]
        parsed_url == urlparse(url)
    IN  IF parsed_url.ValueError THEN invalid_url(st, "Invalid IPv6 URL")
        ELSE IF Strip(url) = <<>>
        THEN returned(st, [new_result EXCEPT !.error = "URL cannot be empty"])
        ELSE LET url2 == IF parsed_url.scheme = <<>> THEN Https \o url ELSE url
                 st2 == [st EXCEPT !.url = url2]
                 parsed2 == IF parsed_url.scheme = <<>> THEN urlparse(url2) ELSE parsed_url
             IN  IF parsed2.ValueError THEN invalid_url(st2, "Invalid IPv6 URL")
                 ELSE [st2 EXCEPT !.pc = "verified",
                                  !.timeout = IF is_replit_url(url2) THEN replit_timeout
                                              ELSE default_timeout]

\* a variant of fetch_entry that prepends "http://"
fetch_entry_prefix_http(url) ==
    LET st == [Idle EXCEPT !.input = url, !.url = url]
        parsed_url == urlparse(url)
    IN  IF parsed_url.ValueError THEN invalid_url(st, "Invalid IPv6 URL")
        ELSE IF Strip(url) = <<>>
        THEN returned(st, [new_result EXCEPT !.error = "URL cannot be empty"])
        ELSE LET url2 == IF parsed_url.scheme = <<>> THEN http \o <<":", "/", "/">> \o url
                          ELSE url
                 st2 == [st EXCEPT !.url = url2]
                 parsed2 == IF parsed_url.scheme = <<>> THEN urlparse(url2) ELSE parsed_url
             IN  IF parsed2.ValueError THEN invalid_url(st2, "Invalid IPv6 URL")
                 ELSE IF parsed2.scheme \notin {http, https}
                 THEN returned(st2, [new_result EXCEPT !.error =
                          "Invalid scheme: " \o Str(parsed2.scheme)
                              \o ". Only http and https are supported."])
                 ELSE [st2 EXCEPT !.pc = "verified",
                                  !.timeout = IF is_replit_url(url2) THEN replit_timeout
                                              ELSE default_timeout]

\* fetch_raw_html from its first line to the start of the retry loop
fetch_entry(url) ==
    LET st == [Idle EXCEPT !.input = url, !.url = url]
        parsed_url == urlparse(url)
    IN  IF parsed_url.ValueError THEN invalid_url(st, "Invalid IPv6 URL")
        ELSE IF Strip(url) = <<>>
        THEN returned(st, [new_result EXCEPT !.error = "URL cannot be empty"])
        ELSE LET url2 == IF parsed_url.scheme = <<>> THEN Https \o url ELSE url
                 st2 == [st EXCEPT !.url = url2]
                 parsed2 == IF parsed_url.scheme = <<>> THEN urlparse(url2) ELSE parsed_url
             IN  IF parsed2.ValueError THEN invalid_url(st2, "Invalid IPv6 URL")
                 ELSE IF parsed2.scheme \notin {http, https}
                 THEN returned(st2, [new_result EXCEPT !.error =
                          "Invalid scheme: " \o Str(parsed2.scheme)
                              \o ". Only http and https are supported."])
                 ELSE [st2 EXCEPT !.pc = "verified",
                                  !.timeout = IF is_replit_url(url2) THEN replit_timeout
                                              ELSE default_timeout]

\* The except clause after the verified request names httpx.SSLError.  The
\* name is looked up when an exception reaches the clause; where httpx does
\* not export it the lookup raises AttributeError, which leaves the loop and
\* is caught by the outer handler.
ssl_lookup_fails == ~httpx_SSLError

\* variants of viable: a threshold one lower, and no threshold
viable_from_49(html_text) == Len(html_text) >= MinBodyLen - 1

viable_any(html_text) == TRUE

\* len(html_text) >= 50, the test both requests make of a 200 response
viable(html_text) == Len(html_text) >= MinBodyLen

\* a variant of succeed that sets the result and goes on with the loop
succeed_without_return(st, o) ==
    LET slept == [st EXCEPT !.events = Append(st.events, Sleep), !.attempt = st.attempt + 1,
                            !.result.success = TRUE, !.result.html = o.body]
    IN  IF slept.attempt < max_attempts THEN [slept EXCEPT !.pc = "verified"]
        ELSE exhausted(slept)

\* result["success"] = True; result["html"] = html_text; return result
succeed(st, o) ==
    returned(st, [st.result EXCEPT !.success = TRUE, !.html = o.body])

\* a variant of http_failure that records the error and retries
http_failure_retried(st, o) ==
    next_attempt([st EXCEPT !.last_error = Some(
        "HTTP " \o ToString(o.status) \o ": " \o reason_phrase(o.status))])

\* the else branch of the verified request: a status other than 200
http_failure(st, o) ==
    returned(st, [st.result EXCEPT !.error =
        "HTTP " \o ToString(o.status) \o ": " \o reason_phrase(o.status)])

\* one iteration of the loop up to its verified request: client.get with
\* verify=True, and the handling of what came back
verified_request(st, o) ==
    LET sent == issue(st, TRUE, o)
        seen == [sent EXCEPT !.result.status_code = Some(o.status)]
    IN  CASE o.kind = "response" /\ o.status = 200 /\ ~viable(o.body) ->
                next_attempt([seen EXCEPT !.last_error = Some("Empty or slow response from server")])
          [] o.kind = "response" /\ o.status = 200 /\ viable(o.body) ->
                succeed(seen, o)
          [] o.kind = "response" /\ o.status # 200 ->
                http_failure(seen, o)
          [] o.kind # "response" /\ ssl_lookup_fails ->
                unexpected_error(sent, "AttributeError",
                                 "module 'httpx' has no attribute 'SSLError'")
          [] o.kind \in {"SSLError", "ConnectError"} /\ ~ssl_lookup_fails ->
                [sent EXCEPT !.pc = "fallback"]
          [] o.kind = "TimeoutException" /\ ~ssl_lookup_fails ->
                next_attempt([sent EXCEPT !.last_error = Some(
                    "Request timeout (> " \o ToString(st.timeout) \o " seconds)")])
          [] OTHER ->
                next_attempt([sent EXCEPT !.last_error = Some(o.msg)])

\* the handler of an SSL or connect error: client.get with verify=False,
\* then time.sleep(1) and the next iteration unless the fallback succeeded
fallback_request(st, o) ==
    LET sent == issue(st, FALSE, o)
        seen == [sent EXCEPT !.result.status_code = Some(o.status)]
    IN  IF o.kind = "response"
        THEN IF o.status = 200 /\ viable(o.body)
             THEN succeed(seen, o)
             ELSE next_attempt(seen)
        ELSE next_attempt([sent EXCEPT !.last_error = Some(o.msg)])

\* the request the activation issues next, answered by o
request(st, o) ==
    CASE st.pc = "verified" -> verified_request(st, o)
      [] st.pc = "fallback" -> fallback_request(st, o)
      [] OTHER -> st

-----------------------------------------------------------------------------
(* utils/ai_wrapper.py *)

DEFAULT_MODEL == "gpt-4.1"
CHEAP_MODEL == "gpt-4o-mini"

key_prefix_len == 200

\* the backquote character, which a string of this module cannot hold
Backquote == "<backquote>"

\* the fence marker, three backquotes
Fence == <<Backquote, Backquote, Backquote>>

\* json.dumps({"error": "AI failed after retries"})
failed_after_retries ==
    <<"{", "\"", "e", "r", "r", "o", "r", "\"", ":", " ", "\"", "A", "I", " ",
      "f", "a", "i", "l", "e", "d", " ", "a", "f", "t", "e", "r", " ",
      "r", "e", "t", "r", "i", "e", "s", "\"", "}">>

\* s[:n]
Prefix(s, n) == SubSeq(s, 1, IF Len(s) < n THEN Len(s) ELSE n)

\* a variant of cache_key_of that ignores the supplied key
cache_key_from_prompt_only(prompt, cache_key) == Prefix(Strip(prompt), key_prefix_len)

\* a variant of cache_key_of that takes the whole prompt for the key
cache_key_of_whole_prompt(prompt, cache_key) ==
    IF ~cache_key.none /\ cache_key.v # <<>> THEN cache_key.v ELSE Strip(prompt)

\* key = cache_key or prompt.strip()[:200]
cache_key_of(prompt, cache_key) ==
    IF ~cache_key.none /\ cache_key.v # <<>> THEN cache_key.v
    ELSE Prefix(Strip(prompt), key_prefix_len)

\* a variant of strip_fences that drops the last line whenever it starts
\* with the fence marker
strip_fences_any_last(content) ==
    LET output == Strip(content)
    IN  IF StartsWith(output, Fence)
        THEN LET lines == Split(output, "\n")
                 rest == IF StartsWith(lines[1], Fence) THEN Tail(lines) ELSE lines
                 kept == IF rest # <<>> /\ StartsWith(Strip(Last(rest)), Fence)
                         THEN SubSeq(rest, 1, Len(rest) - 1) ELSE rest
             IN  Strip(Join(kept, "\n"))
        ELSE output

\* the cleaning of the model text: strip, then drop a fence line at the
\* start and a fence-only line at the end
strip_fences(content) ==
    LET output == Strip(content)
    IN  IF StartsWith(output, Fence)
        THEN LET lines == Split(output, "\n")
                 rest == IF StartsWith(lines[1], Fence) THEN Tail(lines) ELSE lines
                 kept == IF rest # <<>> /\ Strip(Last(rest)) = Fence
                         THEN SubSeq(rest, 1, Len(rest) - 1) ELSE rest
             IN  Strip(Join(kept, "\n"))
        ELSE output

\* no call of smart_ai in progress
Resting ==
    [pc |-> "idle", prompt |-> <<>>, cache_key |-> None, use_model |-> "", max_retry |-> 0,
     temperature |-> 0, max_tokens |-> 0, key |-> <<>>, attempt |-> 0, requests |-> 0,
     hit |-> FALSE, stored |-> FALSE, ret |-> <<>>,
     caller |-> "", default_response |-> None]

\* the record of a finished smart_ai call
Finished(st) ==
    [op |-> "smart_ai", cache_key |-> st.cache_key, key |-> st.key,
     requests |-> st.requests, hit |-> st.hit, stored |-> st.stored, ret |-> st.ret]

Cleared ==
    [op |-> "clear_cache", cache_key |-> None, key |-> <<>>,
     requests |-> 0, hit |-> FALSE, stored |-> FALSE, ret |-> <<>>]

\* smart_ai from its first line to the start of the retry loop; cache is
\* _ai_cache as the call finds it
smart_ai_entry(cache, prompt, model, cache_key, max_retry, temperature, max_tokens) ==
    LET key == cache_key_of(prompt, cache_key)
        st == [Resting EXCEPT !.prompt = prompt, !.cache_key = cache_key,
                              !.use_model = IF ~model.none /\ model.v # "" THEN model.v
                                            ELSE DEFAULT_MODEL,
                              !.max_retry = max_retry, !.temperature = temperature,
                              !.max_tokens = max_tokens, !.key = key]
    IN  IF key \in DOMAIN cache
        THEN [st EXCEPT !.pc = "done", !.hit = TRUE, !.ret = cache[key]]
        ELSE IF max_retry <= 0
        THEN [st EXCEPT !.pc = "done", !.ret = failed_after_retries]
        ELSE [st EXCEPT !.pc = "request"]

\* a variant of attempt_failed that allows one attempt more
attempt_failed_once_more(st) ==
    LET next == [st EXCEPT !.attempt = st.attempt + 1]
    IN  IF next.attempt <= st.max_retry THEN next
        ELSE [next EXCEPT !.pc = "done", !.ret = failed_after_retries]

\* a variant of attempt_failed that has the sentinel stored
attempt_failed_storing(st) ==
    LET next == [st EXCEPT !.attempt = st.attempt + 1]
    IN  IF next.attempt < st.max_retry THEN next
        ELSE [next EXCEPT !.pc = "done", !.stored = TRUE, !.ret = failed_after_retries]

\* the except branch of the loop: time.sleep(1), then the next attempt, or
\* the return after the loop
attempt_failed(st) ==
    LET next == [st EXCEPT !.attempt = st.attempt + 1]
    IN  IF next.attempt < st.max_retry THEN next
        ELSE [next EXCEPT !.pc = "done", !.ret = failed_after_retries]

\* one attempt of the loop: the completion request and what follows it.
\* o is the completion (its message content, None when the message has
\* none) or the exception the request raised.
smart_ai_attempt(st, o) ==
    LET sent == [st EXCEPT !.requests = st.requests + 1]
    IN  IF o.kind = "completion" /\ ~o.content.none
        THEN [sent EXCEPT !.pc = "done", !.stored = TRUE, !.ret = strip_fences(o.content.v)]
        ELSE attempt_failed(sent)

\* a variant of cache_put that keeps no other entry
cache_put_alone(cache, key, output) == [k \in {key} |-> output]

\* a variant of cache_put that stores no blank text
cache_put_unless_blank(cache, key, output) ==
    IF Strip(output) = <<>> THEN cache
    ELSE [k \in DOMAIN cache \cup {key} |-> IF k = key THEN output ELSE cache[k]]

\* _ai_cache[key] = output
cache_put(cache, key, output) ==
    [k \in DOMAIN cache \cup {key} |-> IF k = key THEN output ELSE cache[k]]

\* the keys of the dict in insertion order, after _ai_cache[key] = output
order_put(order, key) ==
    IF \E i \in DOMAIN order : order[i] = key THEN order ELSE Append(order, key)

stats_keys_limit == 10

\* a variant of get_cache_stats that lists every key
get_cache_stats_all_keys(cache, order) ==
    [cached_prompts |-> Cardinality(DOMAIN cache), cache_keys |-> order]

\* get_cache_stats(), for _ai_cache with the given entries and key order
get_cache_stats(cache, order) ==
    [cached_prompts |-> Cardinality(DOMAIN cache),
     cache_keys |-> Prefix(order, stats_keys_limit)]

-----------------------------------------------------------------------------
(* JSON values, as json.loads builds them.  A value carries its Python     *)
(* type in t: None, bool, int, str, list or dict.  A dict is a function    *)
(* from its keys, so that the order of the members does not matter and a   *)
(* repeated key keeps its last value.                                      *)

JNull == [t |-> "None", v |-> 0]
JBool(b) == [t |-> "bool", v |-> b]
JNum(n) == [t |-> "int", v |-> n]
JStr(s) == [t |-> "str", v |-> s]
JList(xs) == [t |-> "list", v |-> xs]
JDict(f) == [t |-> "dict", v |-> f]

\* a str built by the code from a message; its content is not inspected
JText(m) == [t |-> "str", v |-> <<m>>]

\* {}
EmptyDict == [k \in {} |-> JNull]

\* d[key] = value
DictPut(d, key, value) == [k \in DOMAIN d \cup {key} |-> IF k = key THEN value ELSE d[k]]

\* isinstance(x, dict)
IsDict(x) == x.t = "dict"

\* key in d, for a dict d
HasKey(d, key) == key \in DOMAIN d.v

-----------------------------------------------------------------------------
(* json.loads on the texts of the model: objects, arrays, strings without  *)
(* backslash escapes, unsigned integers, true, false and null.  Positions  *)
(* are 1-based; a JSONDecodeError carries the message and the position of  *)
(* the decoder.                                                            *)

JsonWhitespace == {" ", "\t", "\n", "\r"}

JsonDigits == {"0", "1", "2", "3"}

DigitValue(c) == CASE c = "0" -> 0 [] c = "1" -> 1 [] c = "2" -> 2 [] c = "3" -> 3

Parsed(v, i) == [ok |-> TRUE, v |-> v, i |-> i, msg |-> ""]
JSONDecodeError(msg, i) == [ok |-> FALSE, v |-> JNull, i |-> i, msg |-> msg]

\* s[i], or "" past the end of s
At(s, i) == IF i \in 1..Len(s) THEN s[i] ELSE ""

\* the first position from i on where s has no character of the set, or
\* Len(s) + 1
SkipAll(s, i, chars) ==
    LET rest == {k \in i..Len(s) : s[k] \notin chars}
    IN  IF rest = {} THEN (IF i > Len(s) THEN i ELSE Len(s) + 1)
        ELSE CHOOSE k \in rest : \A j \in i..(k - 1) : s[j] \in chars

\* WHITESPACE.match(s, i).end()
SkipWs(s, i) == SkipAll(s, i, JsonWhitespace)

\* s[i:i+len(word)] == word
Reads(s, i, word) == i + Len(word) - 1 <= Len(s) /\ SubSeq(s, i, i + Len(word) - 1) = word

\* the position after the run of digits that starts at i
DigitsEnd(s, i) == SkipAll(s, i, JsonDigits)

RECURSIVE IntOf(_)
\* int(digits)
IntOf(digits) ==
    IF digits = <<>> THEN 0
    ELSE 10 * IntOf(SubSeq(digits, 1, Len(digits) - 1)) + DigitValue(Last(digits))

\* NUMBER_RE.match(s, i): 0, or a non-zero digit followed by digits
scan_number(s, i) ==
    LET end == IF s[i] = "0" THEN i + 1 ELSE DigitsEnd(s, i)
    IN  Parsed(JNum(IntOf(SubSeq(s, i, end - 1))), end)

\* the position of the first quote or control character at or after i, or
\* Len(s) + 1
StringEnd(s, i) ==
    LET stops == {k \in i..Len(s) : s[k] \in {"\"", "\n", "\t", "\r"}}
    IN  IF stops = {} THEN (IF i > Len(s) THEN i ELSE Len(s) + 1)
        ELSE CHOOSE k \in stops : \A j \in stops : k <= j

\* scanstring(s, i), i the position after the opening quote
scanstring(s, i) ==
    LET end == StringEnd(s, i)
    IN  IF end > Len(s) THEN JSONDecodeError("Unterminated string starting at", i - 1)
        ELSE IF s[end] # "\"" THEN JSONDecodeError("Invalid control character at", end)
        ELSE Parsed(JStr(SubSeq(s, i, end - 1)), end + 1)

RECURSIVE scan_once(_, _)
RECURSIVE JSONObject(_, _, _)
RECURSIVE JSONArray(_, _, _)

\* the members of an object from position i (a key is expected there), d
\* holding the members read so far
JSONObject(s, i, d) ==
    IF At(s, i) # "\""
    THEN JSONDecodeError("Expecting property name enclosed in double quotes", i)
    ELSE LET key == scanstring(s, i + 1)
         IN  IF ~key.ok THEN key
             ELSE LET colon == SkipWs(s, key.i)
                  IN  IF At(s, colon) # ":"
                      THEN JSONDecodeError("Expecting ':' delimiter", colon)
                      ELSE LET value == scan_once(s, SkipWs(s, colon + 1))
                           IN  IF ~value.ok THEN value
                               ELSE LET end == SkipWs(s, value.i)
                                        pairs == DictPut(d, key.v.v, value.v)
                                    IN  IF At(s, end) = "}" THEN Parsed(JDict(pairs), end + 1)
                                        ELSE IF At(s, end) # ","
                                        THEN JSONDecodeError("Expecting ',' delimiter", end)
                                        ELSE JSONObject(s, SkipWs(s, end + 1), pairs)

\* the elements of an array from position i (a value is expected there), xs
\* holding the elements read so far
JSONArray(s, i, xs) ==
    LET value == scan_once(s, i)
    IN  IF ~value.ok THEN value
        ELSE LET end == SkipWs(s, value.i)
                 values == Append(xs, value.v)
             IN  IF At(s, end) = "]" THEN Parsed(JList(values), end + 1)
                 ELSE IF At(s, end) # ","
                 THEN JSONDecodeError("Expecting ',' delimiter", end)
                 ELSE JSONArray(s, SkipWs(s, end + 1), values)

\* the value that starts at position i
scan_once(s, i) ==
    LET nextchar == At(s, i)
    IN  CASE nextchar = "\"" -> scanstring(s, i + 1)
          [] nextchar = "{" ->
                LET end == SkipWs(s, i + 1)
                IN  IF At(s, end) = "}" THEN Parsed(JDict(EmptyDict), end + 1)
                    ELSE JSONObject(s, end, EmptyDict)
          [] nextchar = "[" ->
                LET end == SkipWs(s, i + 1)
                IN  IF At(s, end) = "]" THEN Parsed(JList(<<>>), end + 1)
                    ELSE JSONArray(s, end, <<>>)
          [] nextchar = "n" /\ Reads(s, i, <<"n", "u", "l", "l">>) -> Parsed(JNull, i + 4)
          [] nextchar = "t" /\ Reads(s, i, <<"t", "r", "u", "e">>) -> Parsed(JBool(TRUE), i + 4)
          [] nextchar = "f" /\ Reads(s, i, <<"f", "a", "l", "s", "e">>) ->
                Parsed(JBool(FALSE), i + 5)
          [] nextchar \in JsonDigits -> scan_number(s, i)
          [] OTHER -> JSONDecodeError("Expecting value", i)

\* json.loads(s)
json_loads(s) ==
    LET obj == scan_once(s, SkipWs(s, 1))
    IN  IF ~obj.ok THEN obj
        ELSE LET end == SkipWs(s, obj.i)
             IN  IF end # Len(s) + 1 THEN JSONDecodeError("Extra data", end) ELSE obj

\* str(e) for a JSONDecodeError e raised on the text s
DecodeErrorText(s, e) ==
    LET pos == e.i - 1
        newlines == {k \in 1..pos : s[k] = "\n"}
        lineno == Cardinality(newlines) + 1
        colno == IF newlines = {} THEN pos + 1
                 ELSE pos - ((CHOOSE k \in newlines : \A j \in newlines : j <= k) - 1)
    IN  e.msg \o ": line " \o ToString(lineno) \o " column " \o ToString(colno)
            \o " (char " \o ToString(pos) \o ")"

-----------------------------------------------------------------------------
(* utils/ai_wrapper.py: from the model text to a dict *)

raw_limit == 2000
max_retry_default == 3

RECURSIVE Replace(_, _)
\* s.replace(pat, ""): the occurrences of pat are dropped, leftmost first
Replace(s, pat) ==
    LET found == {i \in 1..(Len(s) - Len(pat) + 1) : SubSeq(s, i, i + Len(pat) - 1) = pat}
    IN  IF found = {} THEN s
        ELSE LET i == CHOOSE k \in found : \A j \in found : k <= j
             IN  SubSeq(s, 1, i - 1) \o Replace(SubSeq(s, i + Len(pat), Len(s)), pat)

\* s.rfind(c), 1-based; 0 when c does not occur
RFind(s, c) ==
    IF \E i \in 1..Len(s) : s[i] = c
    THEN CHOOSE i \in 1..Len(s) : s[i] = c /\ \A j \in (i + 1)..Len(s) : s[j] # c
    ELSE 0

\* s.count(c)
Count(s, c) == Cardinality({i \in 1..Len(s) : s[i] = c})

\* s.endswith(c)
EndsWith(s, c) == s # <<>> /\ Last(s) = c

\* s[:-1]
DropLast(s) == SubSeq(s, 1, Len(s) - 1)

\* re.search(r"\{.*\}", s, re.DOTALL): the text from the first opening brace
\* to the last closing brace after it; None when there is no such pair
search_braces(s) ==
    LET first == Find(s, "{")
        last == RFind(s, "}")
    IN  IF first # 0 /\ last > first THEN Some(SubSeq(s, first, last)) ELSE None

\* the trailing comma of fix_truncated_json: s without its trailing whitespace and
\* the comma before it, s itself when it does not end that way
drop_comma(s) == IF EndsWith(RStrip(s), ",") THEN DropLast(RStrip(s)) ELSE s

\* fix_truncated_json up to the text whose brackets are counted: trailing
\* whitespace and one comma dropped, then '""' put after the last quote when
\* the text does not end with a quote, has two quotes or more and has a colon
\* at or after the last one
close_dangling(json_str) ==
    LET uncomma == drop_comma(RStrip(json_str))
        last_quote == RFind(uncomma, "\"")
        second_last_quote == RFind(SubSeq(uncomma, 1, last_quote - 1), "\"")
    IN  IF EndsWith(uncomma, "\"") THEN uncomma
        ELSE IF /\ last_quote # 0
                /\ second_last_quote # 0
                /\ Find(SubSeq(uncomma, last_quote, Len(uncomma)), ":") # 0
        THEN SubSeq(uncomma, 1, last_quote) \o <<"\"", "\"">>
        ELSE uncomma

\* s.count(opener) - s.count(closer)
open_count(s, opener, closer) == Count(s, opener) - Count(s, closer)

\* closer * n: nothing when n is negative
Times(closer, n) == Rep(closer, IF n > 0 THEN n ELSE 0)

\* fix_truncated_json(json_str)
fix_truncated_json(json_str) ==
    LET requoted == close_dangling(json_str)
    IN  drop_comma(requoted) \o Times("]", open_count(requoted, "[", "]"))
                             \o Times("}", open_count(requoted, "{", "}"))

\* the text clean_ai_json hands to json.loads first
extract_json_text(ai_response) ==
    LET cleaned == Strip(Replace(Replace(ai_response, Fence \o <<"j", "s", "o", "n">>), Fence))
        match == search_braces(cleaned)
    IN  IF match.none THEN cleaned ELSE match.v

\* what clean_ai_json gives its caller: the parsed value, or the
\* JSONDecodeError raised on the text fixed, with the decoder's message
Cleaned(fixed, loaded) ==
    IF loaded.ok THEN [ok |-> TRUE, v |-> loaded.v, msg |-> ""]
    ELSE [ok |-> FALSE, v |-> JNull, msg |-> DecodeErrorText(fixed, loaded)]

\* the except branch of clean_ai_json: json.loads(fix_truncated_json(cleaned))
load_fixed(fixed) == Cleaned(fixed, json_loads(fixed))

\* the try statement of clean_ai_json, first being json.loads(cleaned)
load_or_fix(cleaned, first) ==
    IF first.ok THEN Cleaned(cleaned, first) ELSE load_fixed(fix_truncated_json(cleaned))

\* the text clean_ai_json has extracted, handed to json.loads
load_cleaned(cleaned) == load_or_fix(cleaned, json_loads(cleaned))

\* clean_ai_json(ai_response)
clean_ai_json(ai_response) == load_cleaned(extract_json_text(ai_response))

\* {"error": error, "raw": raw}
ErrorDict(error, raw) ==
    JDict(DictPut(DictPut(EmptyDict, <<"e", "r", "r", "o", "r">>, error),
                  <<"r", "a", "w">>, JStr(raw)))

\* {"data": parsed, "raw": raw_output}
DataDict(parsed, raw_output) ==
    JDict(DictPut(DictPut(EmptyDict, <<"d", "a", "t", "a">>, parsed),
                  <<"r", "a", "w">>, JStr(raw_output)))

\* a variant of wrap_parsed that returns what was parsed as it is
wrap_parsed_bare(raw_output, parsed) ==
    IF ~parsed.ok
    THEN ErrorDict(JText("Invalid JSON from AI: " \o parsed.msg), Prefix(raw_output, raw_limit))
    ELSE parsed.v

\* a variant of wrap_parsed that reports the whole text as raw
wrap_parsed_whole_raw(raw_output, parsed) ==
    IF ~parsed.ok
    THEN ErrorDict(JText("Invalid JSON from AI: " \o parsed.msg), raw_output)
    ELSE IF IsDict(parsed.v) THEN parsed.v
    ELSE DataDict(parsed.v, raw_output)

\* the inner try statement of safe_json_ai, parsed being what
\* clean_ai_json(raw_output) returned or raised.  str(je)[:100] is str(je):
\* the decoder's messages on the texts of the model are shorter than 100
\* characters.
wrap_parsed(raw_output, parsed) ==
    IF ~parsed.ok
    THEN ErrorDict(JText("Invalid JSON from AI: " \o parsed.msg), Prefix(raw_output, raw_limit))
    ELSE IF IsDict(parsed.v) THEN parsed.v
    ELSE DataDict(parsed.v, raw_output)

\* safe_json_ai after its call of smart_ai: from raw_output to the dict it
\* returns.  default_response is bound at the top of safe_json_ai and not
\* read afterwards.
safe_json_ai_return(raw_output, default_response) ==
    IF raw_output = <<>> \/ Strip(raw_output) = <<>>
    THEN ErrorDict(JText("AI returned empty response"), <<>>)
    ELSE wrap_parsed(raw_output, clean_ai_json(raw_output))

\* safe_json_ai up to the retry loop of the smart_ai call it makes; the
\* call does not pass max_retry, which is then 3
safe_json_ai_entry(cache, prompt, model, cache_key, max_tokens, temperature, default_response) ==
    [smart_ai_entry(cache, prompt, model, cache_key, max_retry_default, temperature, max_tokens)
        EXCEPT !.caller = "safe_json_ai", !.default_response = default_response]

\* the record of a finished safe_json_ai call: ret is the text smart_ai
\* returned to it, json the dict it returned
JsonFinished(st) ==
    [op |-> "safe_json_ai", cache_key |-> st.cache_key, key |-> st.key,
     requests |-> st.requests, hit |-> st.hit, stored |-> st.stored, ret |-> st.ret,
     default_response |-> st.default_response,
     json |-> safe_json_ai_return(st.ret, st.default_response)]

\* the record of a finished get_cache_stats call
StatsReturned(stats) ==
    [op |-> "get_cache_stats", cache_key |-> None, key |-> <<>>,
     requests |-> 0, hit |-> FALSE, stored |-> FALSE, ret |-> <<>>, stats |-> stats]

\* the record of the call that returns from st
Return(st) == IF st.caller = "safe_json_ai" THEN JsonFinished(st) ELSE Finished(st)

-----------------------------------------------------------------------------
(* The fetcher as a state machine: one call of fetch_raw_html against a    *)
(* remote that may answer each request in any way.                         *)

\* no endpoint of main.py is being served.  An endpoint that is being
\* served keeps its request's url, the keys the cache held when the request
\* arrived (before), the issues generate_tasks has still to improve, the
\* competitors discover_competitors_ai returned, and what it has done so far
\* (events), the competitors it has still to fetch (pending), what became
\* of each competitor fetch so far (fetched) and, once it has returned, the
\* dict it returned (response).
Waiting ==
    [pc |-> "idle", endpoint |-> "", url |-> <<>>, before |-> {}, issues |-> <<>>,
     competitors |-> <<>>, events |-> <<>>, pending |-> <<>>, fetched |-> <<>>,
     response |-> None]

FetcherInit ==
    /\ httpx_SSLError \in BOOLEAN
    /\ fetch = Idle
    /\ twin = Idle

\* extract_limited_html has not been called.  After a call, extract holds
\* the pieces the text was made of, the arguments and the string returned.
NotCalled == [pc |-> "idle", parts |-> <<>>, html |-> None, limit |-> 0, result |-> <<>>]

WrapperInit ==
    /\ extract = NotCalled
    /\ ai_cache = <<>>
    /\ ai_cache_order = <<>>
    /\ ai = Resting
    /\ calls = <<>>
    /\ handler = Waiting

\* no workflow has been created and no request received
AppInit ==
    /\ workflow = None
    /\ tasks = <<>>

Init == FetcherInit /\ WrapperInit /\ AppInit

Call ==
    /\ fetch.pc = "idle"
    /\ \E url \in Urls : fetch' = fetch_entry(url)
    /\ UNCHANGED <<httpx_SSLError, twin, wrapper_vars, app_vars>>

VerifiedRequest ==
    /\ fetch.pc = "verified"
    /\ \E o \in Outcomes : fetch' = verified_request(fetch, o)
    /\ UNCHANGED <<httpx_SSLError, twin, wrapper_vars, app_vars>>

FallbackRequest ==
    /\ fetch.pc = "fallback"
    /\ \E o \in Outcomes : fetch' = fallback_request(fetch, o)
    /\ UNCHANGED <<httpx_SSLError, twin, wrapper_vars, app_vars>>

Next == Call \/ VerifiedRequest \/ FallbackRequest

Spec == Init /\ [][Next]_vars

-----------------------------------------------------------------------------
(* Two calls against the same remote: fetch is called with a URL in which  *)
(* urlparse finds no scheme, twin with the same URL behind "https://".     *)
(* The k-th request of either call is answered in the same way.            *)

Active == {"verified", "fallback"}

TwinCall ==
    /\ fetch.pc = "idle"
    /\ \E url \in Urls :
          /\ urlparse(url).scheme = <<>>
          /\ fetch' = fetch_entry(url)
          /\ twin' = fetch_entry(Https \o url)
    /\ UNCHANGED <<httpx_SSLError, wrapper_vars, app_vars>>

TwinRequest ==
    /\ fetch.pc \in Active \/ twin.pc \in Active
    /\ \E o \in Outcomes :
          /\ fetch' = request(fetch, o)
          /\ twin' = request(twin, o)
    /\ UNCHANGED <<httpx_SSLError, wrapper_vars, app_vars>>

TwinNext == TwinCall \/ TwinRequest

TwinSpec == Init /\ [][TwinNext]_vars

-----------------------------------------------------------------------------
(* The AI wrapper as a state machine: calls of smart_ai and clear_cache,   *)
(* one at a time, against a model endpoint that may answer each request    *)
(* with any text or fail.  A call that returns is entered in calls with    *)
(* what it returned.                                                       *)

Prompts ==
    { <<"p">>, <<" ", "p", "\n">>,
      Rep("a", key_prefix_len) \o <<"x">>,
      Rep("a", key_prefix_len) \o <<"y">> }

CacheKeys == {None, Some(<<>>), Some(<<"k">>)}

\* model, temperature (in tenths) and max_tokens as callers pass them
Options ==
    { [model |-> None, temperature |-> 2, max_tokens |-> 2000],
      [model |-> Some(CHEAP_MODEL), temperature |-> 7, max_tokens |-> 1000] }

Contents ==
    { <<"{", "}">>,
      <<" ", "[", "]", "\n">>,
      Fence \o <<"j", "s", "o", "n", "\n", "{", "}", "\n">> \o Fence,
      <<>> }

Completion(content) == [kind |-> "completion", content |-> content]
Completions ==
    {Completion(Some(c)) : c \in Contents}
    \cup {Completion(None), [kind |-> "APIError", content |-> None]}

\* a call of smart_ai or safe_json_ai is made: st is the call at its first
\* request, or already returned (cache hit, or no attempt to make)
Enter(st) ==
    /\ ai.pc = "idle"
    /\ Len(calls) < MaxCalls
    /\ ai' = IF st.pc = "done" THEN Resting ELSE st
    /\ calls' = IF st.pc = "done" THEN Append(calls, Return(st)) ELSE calls
    /\ UNCHANGED <<ai_cache, ai_cache_order, handler, extract, fetcher_vars, app_vars>>

\* the model endpoint answers the request of the call in progress with o
Respond(o) ==
    /\ ai.pc = "request"
    /\ LET st == smart_ai_attempt(ai, o)
       IN  /\ ai' = IF st.pc = "done" THEN Resting ELSE st
           /\ ai_cache' = IF st.stored THEN cache_put(ai_cache, st.key, st.ret) ELSE ai_cache
           /\ ai_cache_order' = IF st.stored THEN order_put(ai_cache_order, st.key)
                                 ELSE ai_cache_order
           /\ calls' = IF st.pc = "done" THEN Append(calls, Return(st)) ELSE calls
    /\ UNCHANGED <<handler, extract, fetcher_vars, app_vars>>

SmartAi ==
    \E prompt \in Prompts, cache_key \in CacheKeys, opt \in Options, max_retry \in 0..MaxRetry :
        Enter(smart_ai_entry(ai_cache, prompt, opt.model, cache_key, max_retry,
                             opt.temperature, opt.max_tokens))

ModelRequest == \E o \in Completions : Respond(o)

ClearCache ==
    /\ ai.pc = "idle"
    /\ Len(calls) < MaxCalls
    /\ ai_cache' = <<>>
    /\ ai_cache_order' = <<>>
    /\ calls' = Append(calls, Cleared)
    /\ UNCHANGED <<ai, handler, extract, fetcher_vars, app_vars>>

WrapperNext == SmartAi \/ ModelRequest \/ ClearCache

\* the wrapper does not use httpx
WrapperStart == Init /\ httpx_SSLError = TRUE

WrapperSpec == WrapperStart /\ [][WrapperNext]_vars

-----------------------------------------------------------------------------
(* The cache over a longer life: smart_ai calls with fresh keys fill it,   *)
(* WarmUp being one such call from entry to return; then calls of          *)
(* smart_ai, safe_json_ai, get_cache_stats and clear_cache follow, which   *)
(* are entered in calls.                                                   *)

\* the key of the i-th call that fills the cache
WarmKey(i) == Rep("w", i)

WarmText == <<"[", "]">>

CachePrompt == <<"p">>

ProbedKeys == {Some(WarmKey(1)), Some(<<"k">>)}

CacheCompletions ==
    {Completion(Some(<<"{", "}">>)), Completion(Some(<<>>)), Completion(Some(<<"n", "o">>)),
     [kind |-> "APIError", content |-> None]}

WarmUp ==
    /\ ai.pc = "idle"
    /\ calls = <<>>
    /\ Len(ai_cache_order) < MaxWarm
    /\ LET key == WarmKey(Len(ai_cache_order) + 1)
           st == smart_ai_attempt(
                     smart_ai_entry(ai_cache, CachePrompt, None, Some(key), 1, 2, 2000),
                     Completion(Some(WarmText)))
       IN  /\ ai_cache' = cache_put(ai_cache, st.key, st.ret)
           /\ ai_cache_order' = order_put(ai_cache_order, st.key)
    /\ UNCHANGED <<ai, calls, handler, extract, fetcher_vars, app_vars>>

ProbeSmartAi ==
    \E cache_key \in ProbedKeys, max_retry \in {0, MaxRetry} :
        Enter(smart_ai_entry(ai_cache, CachePrompt, Some(CHEAP_MODEL), cache_key, max_retry,
                             2, 200))

ProbeSafeJsonAi ==
    \E cache_key \in ProbedKeys :
        Enter(safe_json_ai_entry(ai_cache, CachePrompt, Some(DEFAULT_MODEL), cache_key,
                                 1000, 2, None))

ProbeRequest == \E o \in CacheCompletions : Respond(o)

GetCacheStats ==
    /\ ai.pc = "idle"
    /\ Len(calls) < MaxCalls
    /\ calls' = Append(calls, StatsReturned(get_cache_stats(ai_cache, ai_cache_order)))
    /\ UNCHANGED <<ai_cache, ai_cache_order, ai, handler, extract, fetcher_vars, app_vars>>

CacheNext ==
    \/ WarmUp
    \/ ProbeSmartAi
    \/ ProbeSafeJsonAi
    \/ ProbeRequest
    \/ GetCacheStats
    \/ ClearCache

CacheSpec == WrapperStart /\ [][CacheNext]_vars

-----------------------------------------------------------------------------
(* main.py: the endpoints /competitors and /full-analysis.  The endpoints  *)
(* are coroutines that never await, so the event loop serves one request   *)
(* from its first line to its return before it starts the next.  A call of *)
(* smart_ai or safe_json_ai made by an endpoint is one step here, from its *)
(* entry to its return; what fetch_raw_html returns to the endpoint is the *)
(* choice of the step that calls it.                                       *)

RunUrls == {Https \o <<"a">>, Https \o <<"b">>}

\* structure_result["basic_issues"], as analyze_basic_structure builds it
missing_title ==
    <<"m", "i", "s", "s", "i", "n", "g", " ", "t", "i", "t", "l", "e">>
IssueLists == {<<>>, <<missing_title>>}

issue_key_len == 50

\* f"improve-task-{issue[:50]}"
improve_task_key(basic_issue) ==
    <<"i", "m", "p", "r", "o", "v", "e", "-", "t", "a", "s", "k", "-">>
    \o Prefix(basic_issue, issue_key_len)

\* f"ux-detailed-{url}"
ux_detailed_key(url) ==
    <<"u", "x", "-", "d", "e", "t", "a", "i", "l", "e", "d", "-">> \o url

\* f"seo-detailed-{url}"
seo_detailed_key(url) ==
    <<"s", "e", "o", "-", "d", "e", "t", "a", "i", "l", "e", "d", "-">> \o url

\* f"competitors-discover-{main_url}"
competitors_discover_key(main_url) ==
    <<"c", "o", "m", "p", "e", "t", "i", "t", "o", "r", "s", "-", "d", "i",
      "s", "c", "o", "v", "e", "r", "-">>
    \o main_url

\* f"comp-strategic-{main_url}"
comp_strategic_key(main_url) ==
    <<"c", "o", "m", "p", "-", "s", "t", "r", "a", "t", "e", "g", "i", "c",
      "-">>
    \o main_url

\* the default_response arguments of the four safe_json_ai calls
ux_default ==
    JDict(DictPut(DictPut(EmptyDict, <<"s", "u", "m", "m", "a", "r", "y">>,
      JStr(<<"A", "n", "a", "l", "y", "s", "i", "s", " ", "c", "o", "m", "p",
      "l", "e", "t", "e">>)), <<"i", "s", "s", "u", "e", "s">>, JList(<<>>)))
seo_default ==
    JDict(DictPut(DictPut(DictPut(EmptyDict, <<"s", "u", "m", "m", "a", "r",
      "y">>, JStr(<<"A", "n", "a", "l", "y", "s", "i", "s", " ", "c", "o",
      "m", "p", "l", "e", "t", "e">>)), <<"s", "c", "o", "r", "e">>,
      JNum(50)), <<"i", "s", "s", "u", "e", "s">>, JList(<<>>)))
discover_default ==
    JDict(DictPut(DictPut(EmptyDict, <<"c", "a", "t", "e", "g", "o", "r",
      "y">>, JStr(<<"u", "n", "k", "n", "o", "w", "n">>)), <<"c", "o", "m",
      "p", "e", "t", "i", "t", "o", "r", "s">>, JList(<<>>)))
strategic_default ==
    JDict(DictPut(DictPut(DictPut(DictPut(DictPut(DictPut(DictPut(DictPut(EmptyDict,
      <<"s", "u", "m", "m", "a", "r", "y">>, JStr(<<"A", "n", "a", "l", "y",
      "s", "i", "s", " ", "c", "o", "m", "p", "l", "e", "t", "e">>)), <<"c",
      "a", "t", "e", "g", "o", "r", "y", "_", "d", "e", "t", "e", "c", "t",
      "e", "d">>, JStr(<<"u", "n", "k", "n", "o", "w", "n">>)), <<"c", "o",
      "m", "p", "e", "t", "i", "t", "o", "r", "s", "_", "a", "n", "a", "l",
      "y", "z", "e", "d">>, JList(<<>>)), <<"f", "e", "a", "t", "u", "r",
      "e", "_", "g", "a", "p", "s">>, JList(<<>>)), <<"s", "t", "r", "e",
      "n", "g", "t", "h", "s">>, JList(<<>>)), <<"w", "e", "a", "k", "n",
      "e", "s", "s", "e", "s">>, JList(<<>>)), <<"b", "u", "s", "i", "n",
      "e", "s", "s", "_", "o", "p", "p", "o", "r", "t", "u", "n", "i", "t",
      "i", "e", "s">>, JList(<<>>)), <<"f", "i", "n", "a", "l", "_", "r",
      "e", "c", "o", "m", "m", "e", "n", "d", "a", "t", "i", "o", "n", "s">>,
      JList(<<>>)))

\* a model text that names one competitor
DiscoveredText ==
    <<"{", "\"", "c", "o", "m", "p", "e", "t", "i", "t", "o", "r", "s", "\"",
      ":", " ", "[", "\"", "h", "t", "t", "p", "s", ":", "/", "/", "c", "\"",
      "]", "}">>

\* a completion that names three competitors
DiscoveredThree ==
    <<"{", "\"", "c", "o", "m", "p", "e", "t", "i", "t", "o", "r", "s", "\"",
      ":", " ", "[", "\"", "h", "t", "t", "p", "s", ":", "/", "/", "c", "\"",
      ",", " ", "\"", "h", "t", "t", "p", "s", ":", "/", "/", "d", "\"", ",",
      " ", "\"", "h", "t", "t", "p", "s", ":", "/", "/", "e", "\"", "]", "}">>

RunCompletions == {Completion(Some(<<"{", "}">>)), [kind |-> "APIError", content |-> None]}
DiscoverCompletions ==
    RunCompletions \cup {Completion(Some(DiscoveredText)), Completion(Some(DiscoveredThree))}

\* the answers of the model endpoint to the requests of one call
AnswerSeqs(S) == [1..max_retry_default -> S]

\* a call of smart_ai from its entry st to its return, its requests
\* answered by answers one after the other
RECURSIVE answered(_, _)
answered(st, answers) ==
    IF st.pc # "request" \/ answers = <<>> THEN st
    ELSE answered(smart_ai_attempt(st, Head(answers)), Tail(answers))

ClearEvent == [kind |-> "clear_cache", key |-> <<>>, hit |-> FALSE, stored |-> FALSE, ok |-> TRUE]
FetchEvent(ok) == [kind |-> "fetch", key |-> <<>>, hit |-> FALSE, stored |-> FALSE, ok |-> ok]
ModelEvent(st) ==
    [kind |-> "model", key |-> st.key, hit |-> st.hit, stored |-> st.stored, ok |-> TRUE]

\* a variant of full_analysis_cleared that leaves the cache as it is
full_analysis_kept(c) == c

\* _ai_cache, and the order of its keys, after the first statement of
\* full_analysis: clear_cache()
full_analysis_cleared(c) == <<>>

\* what a call of fetch_raw_html does to the endpoint that makes it: it
\* returns a dict with success true, returns a dict with success false and an
\* error, or raises (the AttributeError of its except clause)
Fetched == [kind |-> "success", error |-> ""]
FetchFailed == [kind |-> "failure", error |-> "Failed after 3 attempts"]
FetchRaised == [kind |-> "raised", error |-> "module 'httpx' has no attribute 'SSLError'"]
FetchOutcomes == {Fetched, FetchFailed, FetchRaised}

\* the dicts the endpoints return: success, and error ("" when the dict has
\* no such key)
success_response == Some([success |-> TRUE, error |-> ""])
failed_response(error) == Some([success |-> FALSE, error |-> error])

\* the except clause at the end of each endpoint
analysis_failed(endpoint, e) ==
    failed_response((IF endpoint = "competitors" THEN "Competitor analysis failed: "
                     ELSE "Full analysis failed: ") \o e)

\* what the endpoint returns when the fetch of its own url does not succeed
fetch_failed(endpoint, o) ==
    IF o.kind = "raised" THEN analysis_failed(endpoint, o.error)
    ELSE failed_response(o.error)

\* competitor_ai_check up to its first model call, or to its return when
\* the fetch does not succeed; o is what fetch_raw_html did
competitor_ai_check(cache, url, o) ==
    [Waiting EXCEPT !.pc = IF o.kind = "success" THEN "discover" ELSE "done",
                    !.endpoint = "competitors", !.url = url, !.before = DOMAIN cache,
                    !.events = <<FetchEvent(o.kind = "success")>>,
                    !.response = IF o.kind = "success" THEN None
                                 ELSE fetch_failed("competitors", o)]

\* full_analysis up to its first model call, or to its return when the
\* fetch does not succeed; cache is _ai_cache as the request finds it
full_analysis(cache, url, o, issues) ==
    [Waiting EXCEPT !.pc = IF o.kind # "success" THEN "done"
                           ELSE IF issues = <<>> THEN "ux" ELSE "tasks",
                    !.endpoint = "full-analysis", !.url = url, !.before = DOMAIN cache,
                    !.issues = IF o.kind = "success" THEN issues ELSE <<>>,
                    !.events = <<ClearEvent, FetchEvent(o.kind = "success")>>,
                    !.response = IF o.kind = "success" THEN None
                                 ELSE fetch_failed("full-analysis", o)]

\* the list discover_competitors_ai returns for the dict safe_json_ai gave it
IsHttpUrl(x) == x.t = "str" /\ StartsWith(x.v, http)
discovered(result) ==
    IF HasKey(result, <<"e", "r", "r", "o", "r">>) THEN <<>>
    ELSE IF ~HasKey(result, <<"c", "o", "m", "p", "e", "t", "i", "t", "o", "r", "s">>) THEN <<>>
    ELSE IF result.v[<<"c", "o", "m", "p", "e", "t", "i", "t", "o", "r", "s">>].t # "list" THEN <<>>
    ELSE Prefix(SelectSeq(result.v[<<"c", "o", "m", "p", "e", "t", "i", "t", "o", "r", "s">>].v, IsHttpUrl), 5)

\* a variant of to_fetch that takes every competitor
to_fetch_all(competitors) == competitors

\* competitors[:2]: the competitors the endpoint fetches
to_fetch(competitors) == Prefix(competitors, 2)

\* the keys of competitor_html_map after the fetches of log
competitor_html_map(log) ==
    {log[i].url : i \in {j \in DOMAIN log : log[j].outcome = "success"}}

\* the endpoint being served has made the call st, which has returned; it
\* goes on at pc, where "fetch" is the loop over the competitors and "done"
\* the return of the dict with success true
Made(st, pc, issues, competitors) ==
    /\ ai_cache' = IF st.stored THEN cache_put(ai_cache, st.key, st.ret) ELSE ai_cache
    /\ ai_cache_order' = IF st.stored THEN order_put(ai_cache_order, st.key)
                          ELSE ai_cache_order
    /\ handler' = [handler EXCEPT !.pc = pc, !.issues = issues,
                                   !.competitors = competitors,
                                   !.events = Append(@, ModelEvent(st)),
                                   !.pending = IF pc = "fetch" THEN to_fetch(competitors)
                                               ELSE <<>>,
                                   !.response = IF pc = "done" THEN success_response
                                                ELSE None]
    /\ UNCHANGED <<ai, calls, extract, fetcher_vars, app_vars>>

\* the endpoint goes on after discover_competitors_ai: it fetches the first
\* two competitors, if there are any
Discovered(st, competitors) ==
    Made(st, IF to_fetch(competitors) # <<>> THEN "fetch" ELSE "done", <<>>, competitors)

\* one turn of the loop over competitors[:2]: the fetch of the next
\* competitor, whose failure or exception is noted and nothing more; after
\* the last turn run_competitor_ai is called if competitor_html_map is not
\* empty
FetchCompetitor ==
    /\ handler.pc = "fetch"
    /\ \E o \in FetchOutcomes :
           LET log == Append(handler.fetched,
                             [url |-> Head(handler.pending), outcome |-> o.kind])
               rest == Tail(handler.pending)
               none == competitor_html_map(log) = {}
           IN handler' = [handler EXCEPT
                             !.fetched = log,
                             !.pending = rest,
                             !.pc = IF rest # <<>> THEN "fetch"
                                    ELSE IF none THEN "done" ELSE "strategic",
                             !.response = IF rest = <<>> /\ none THEN success_response
                                          ELSE None]
    /\ UNCHANGED <<ai_cache, ai_cache_order, ai, calls, extract, fetcher_vars, app_vars>>

CompetitorAiCheck ==
    \E url \in RunUrls, o \in FetchOutcomes :
        /\ handler.pc \in {"idle", "done"}
        /\ handler' = competitor_ai_check(ai_cache, url, o)
        /\ UNCHANGED <<ai_cache, ai_cache_order, ai, calls, extract, fetcher_vars, app_vars>>

FullAnalysis ==
    \E url \in RunUrls, o \in FetchOutcomes, issues \in IssueLists :
        /\ handler.pc \in {"idle", "done"}
        /\ handler' = full_analysis(ai_cache, url, o, issues)
        /\ ai_cache' = full_analysis_cleared(ai_cache)
        /\ ai_cache_order' = full_analysis_cleared(ai_cache_order)
        /\ UNCHANGED <<ai, calls, extract, fetcher_vars, app_vars>>

\* generate_tasks: improve_task_with_ai for the next issue
GenerateTasks ==
    /\ handler.pc = "tasks"
    /\ \E answers \in AnswerSeqs(RunCompletions) :
           Made(answered(smart_ai_entry(ai_cache, Head(handler.issues), Some(CHEAP_MODEL),
                                        Some(improve_task_key(Head(handler.issues))),
                                        max_retry_default, 2, 200),
                         answers),
                IF Tail(handler.issues) = <<>> THEN "ux" ELSE "tasks",
                Tail(handler.issues), <<>>)

RunUxReviewAi ==
    /\ handler.pc = "ux"
    /\ \E answers \in AnswerSeqs(RunCompletions) :
           Made(answered(safe_json_ai_entry(ai_cache, handler.url, Some(DEFAULT_MODEL),
                                            Some(ux_detailed_key(handler.url)), 2000, 2,
                                            Some(ux_default)),
                         answers),
                "seo", <<>>, <<>>)

RunSeoAi ==
    /\ handler.pc = "seo"
    /\ \E answers \in AnswerSeqs(RunCompletions) :
           Made(answered(safe_json_ai_entry(ai_cache, handler.url, Some(DEFAULT_MODEL),
                                            Some(seo_detailed_key(handler.url)), 2000, 2,
                                            Some(seo_default)),
                         answers),
                "discover", <<>>, <<>>)

\* the call st of discover_competitors_ai has returned
AfterDiscover(st) ==
    Discovered(st, discovered(safe_json_ai_return(st.ret, st.default_response)))

DiscoverCompetitorsAi ==
    /\ handler.pc = "discover"
    /\ \E answers \in AnswerSeqs(DiscoverCompletions) :
           AfterDiscover(answered(safe_json_ai_entry(ai_cache, handler.url,
                                                     Some(DEFAULT_MODEL),
                                                     Some(competitors_discover_key(handler.url)),
                                                     300, 2, Some(discover_default)),
                                  answers))

RunCompetitorAi ==
    /\ handler.pc = "strategic"
    /\ \E answers \in AnswerSeqs(RunCompletions) :
           Made(answered(safe_json_ai_entry(ai_cache, handler.url, Some(DEFAULT_MODEL),
                                            Some(comp_strategic_key(handler.url)), 2500, 2,
                                            Some(strategic_default)),
                         answers),
                "done", <<>>, handler.competitors)

RunNext ==
    \/ CompetitorAiCheck
    \/ FullAnalysis
    \/ GenerateTasks
    \/ RunUxReviewAi
    \/ RunSeoAi
    \/ DiscoverCompetitorsAi
    \/ FetchCompetitor
    \/ RunCompetitorAi

RunSpec == WrapperStart /\ [][RunNext]_vars

-----------------------------------------------------------------------------
(* safe_json_ai as a state machine: one call against a model endpoint that *)
(* may answer each request with any of the texts below or fail, and a      *)
(* second call, which the cache serves, when the first stored a text.      *)

\* str(n) for the numbers of the model
DigitChar(n) == CHOOSE c \in JsonDigits : DigitValue(c) = n
RECURSIVE DigitsOf(_)
DigitsOf(n) == IF n < 10 THEN <<DigitChar(n)>> ELSE DigitsOf(n \div 10) \o <<DigitChar(n % 10)>>

RECURSIVE JoinWith(_, _)
\* sep.join(parts)
JoinWith(parts, sep) ==
    IF parts = <<>> THEN <<>>
    ELSE IF Len(parts) = 1 THEN parts[1]
    ELSE parts[1] \o sep \o JoinWith(Tail(parts), sep)

\* the keys of the dicts of the model, in the order the dicts hold them
KeyOrder == <<<<"a">>, <<"b">>, <<"k">>>>
InDict(d) == LET Holds(key) == key \in DOMAIN d IN SelectSeq(KeyOrder, Holds)

RECURSIVE json_dumps(_)
\* json.dumps(x), for values whose strings need no escape
json_dumps(x) ==
    CASE x.t = "None" -> <<"n", "u", "l", "l">>
      [] x.t = "bool" -> IF x.v THEN <<"t", "r", "u", "e">> ELSE <<"f", "a", "l", "s", "e">>
      [] x.t = "int" -> DigitsOf(x.v)
      [] x.t = "str" -> <<"\"">> \o x.v \o <<"\"">>
      [] x.t = "list" ->
            <<"[">> \o JoinWith([i \in 1..Len(x.v) |-> json_dumps(x.v[i])], <<",", " ">>)
                \o <<"]">>
      [] x.t = "dict" ->
            <<"{">> \o JoinWith([i \in 1..Len(InDict(x.v)) |->
                                    <<"\"">> \o InDict(x.v)[i] \o <<"\"", ":", " ">>
                                        \o json_dumps(x.v[InDict(x.v)[i]])],
                                <<",", " ">>)
                \o <<"}">>

\* the values of the members of a well-formed dict: strings, among them a
\* fence marker and braces, numbers, booleans, arrays and dicts of strings
MemberValues ==
    <<JStr(<<"s">>), JStr(Fence), JStr(<<"{">>), JStr(<<"}">>),
      JNum(1), JNum(12), JBool(TRUE), JBool(FALSE),
      JList(<<>>), JList(<<JNum(1), JNum(2)>>), JList(<<JStr(<<"s">>)>>),
      JDict(EmptyDict), JDict(DictPut(EmptyDict, <<"k">>, JStr(<<"v">>)))>>

\* the dict with MemberValues[i] at "a" and MemberValues[j] at "b"; 0 is
\* for a key the dict does not have
WellFormedDict(i, j) ==
    IF i = 0 THEN JDict(EmptyDict)
    ELSE IF j = 0 THEN JDict(DictPut(EmptyDict, <<"a">>, MemberValues[i]))
    ELSE JDict(DictPut(DictPut(EmptyDict, <<"a">>, MemberValues[i]), <<"b">>, MemberValues[j]))

WellFormed ==
    {<<0, 0>>} \cup {<<i, j>> : i \in DOMAIN MemberValues, j \in {0} \cup DOMAIN MemberValues}

\* json.dumps of the well-formed dicts
WellFormedTexts == {json_dumps(WellFormedDict(p[1], p[2])) : p \in WellFormed}

\* JSON values that are not objects
NonObjects ==
    <<JNull, JBool(TRUE), JNum(1), JStr(<<"s">>), JList(<<>>), JList(<<JNum(1), JNum(2)>>),
      JList(<<JDict(DictPut(EmptyDict, <<"a">>, JNum(1)))>>),
      JList(<<JDict(DictPut(EmptyDict, <<"a">>, JNum(1))),
              JDict(DictPut(EmptyDict, <<"b">>, JNum(2)))>>),
      JList(<<JNum(1), JDict(DictPut(EmptyDict, <<"a">>, JNum(2)))>>)>>

NonObjectTexts == {json_dumps(NonObjects[i]) : i \in DOMAIN NonObjects}

\* the lengths at which full is cut so that only closing brackets and
\* braces are lost
CutsOf(full) ==
    {n \in 1..(Len(full) - 1) : \A i \in (n + 1)..Len(full) : full[i] \in {"]", "}"}}

\* the serializations of the well-formed dicts, cut so
Truncations ==
    UNION {{[full |-> full, text |-> Prefix(full, n)] : n \in CutsOf(full)} :
               full \in WellFormedTexts}

\* {"a": 1, "b": [1,2
CutExample ==
    <<"{", "\"", "a", "\"", ":", " ", "1", ",", " ", "\"", "b", "\"", ":",
      " ", "[", "1", ",", "2">>
\* {"a": 1, "b": [1,2]}
CutExampleWhole == CutExample \o <<"]", "}">>

NotJson ==
    <<"n", "o", "t", " ", "j", "s", "o", "n", " ", "a", "t", " ", "a", "l",
      "l">>

\* a text longer than raw_limit
LongText == Rep("x", raw_limit + 1)

FencedDict ==
    Fence \o <<"j", "s", "o", "n", "\n">> \o
        <<"{", "\"", "a", "\"", ":", " ", "1", "}">>
    \o <<"\n">> \o Fence

\* a dict with text before and after it
DictInProse ==
    <<"H", "e", "r", "e", ":", " ", "{", "\"", "a", "\"", ":", " ", "1", "}",
      " ", "o", "k">>

JsonTexts ==
    WellFormedTexts \cup NonObjectTexts
    \cup {p.text : p \in Truncations}
    \cup {CutExample, NotJson, LongText, FencedDict, DictInProse, <<>>, <<" ", "\n">>}

JsonCompletions ==
    {Completion(Some(c)) : c \in JsonTexts}
    \cup {Completion(None), [kind |-> "APIError", content |-> None]}

\* the default_response arguments of the calls
Defaults == {None, Some(discover_default)}

\* default_response as safe_json_ai binds it when the caller gave none
ai_unavailable ==
    ErrorDict(JStr(
        <<"A", "I", " ", "u", "n", "a", "v", "a", "i", "l", "a", "b", "l",
          "e">>), <<>>)

SafeJsonAi ==
    /\ calls = <<>> \/ (Len(calls) = 1 /\ calls[1].stored)
    /\ \E default_response \in Defaults :
           Enter(safe_json_ai_entry(ai_cache, CachePrompt, Some(DEFAULT_MODEL),
                                    Some(<<"k">>), 1000, 2, default_response))

JsonRequest == \E o \in JsonCompletions : Respond(o)

JsonNext == SafeJsonAi \/ JsonRequest

JsonSpec == WrapperStart /\ [][JsonNext]_vars

-----------------------------------------------------------------------------
(* smart_ai without a cache key: calls whose key comes from the prompt, a  *)
(* call being one step from its entry to its return, and clear_cache.  The *)
(* entry of a call in calls holds its prompt as well.                      *)

KeyPrompts == Prompts \cup {<<"q">>, <<>>}

KeyCompletions ==
    {Completion(Some(<<"{", "}">>)), Completion(Some(<<"[", "]">>)),
     [kind |-> "APIError", content |-> None]}

\* the record of a finished smart_ai call, with its prompt
PromptFinished(st) ==
    [op |-> "smart_ai", prompt |-> st.prompt, cache_key |-> st.cache_key, key |-> st.key,
     requests |-> st.requests, hit |-> st.hit, stored |-> st.stored, ret |-> st.ret]

\* the call st has returned
KeyReturned(st) ==
    /\ ai_cache' = IF st.stored THEN cache_put(ai_cache, st.key, st.ret) ELSE ai_cache
    /\ ai_cache_order' = IF st.stored THEN order_put(ai_cache_order, st.key)
                          ELSE ai_cache_order
    /\ calls' = Append(calls, PromptFinished(st))
    /\ UNCHANGED <<ai, handler, extract, fetcher_vars, app_vars>>

SmartAiByPrompt ==
    /\ ai.pc = "idle"
    /\ Len(calls) < MaxCalls
    /\ \E prompt \in KeyPrompts, cache_key \in {None, Some(<<>>)},
          answers \in [1..max_retry_default -> KeyCompletions] :
           KeyReturned(answered(smart_ai_entry(ai_cache, prompt, None, cache_key,
                                               max_retry_default, 2, 2000),
                                answers))

KeyNext == SmartAiByPrompt \/ ClearCache

KeySpec == WrapperStart /\ [][KeyNext]_vars

-----------------------------------------------------------------------------
(* extract_limited_html: the substitutions of the re module it applies, as *)
(* far as its patterns need them, and the slice that ends it.              *)

blob_min == 500
default_limit == 8000

ascii_lowercase ==
    {"a", "b", "c", "d", "e", "f", "g", "h", "i", "j", "k", "l", "m", "n", "o", "p", "q",
     "r", "s", "t", "u", "v", "w", "x", "y", "z"}
ascii_uppercase ==
    {"A", "B", "C", "D", "E", "F", "G", "H", "I", "J", "K", "L", "M", "N", "O", "P", "Q",
     "R", "S", "T", "U", "V", "W", "X", "Y", "Z"}

\* the least element of a set of positions
First(S) == CHOOSE i \in S : \A j \in S : i <= j

\* with re.IGNORECASE, the literal pat (in lower case) matches s at position i
MatchAt(s, i, pat) ==
    /\ i >= 1
    /\ i + Len(pat) - 1 <= Len(s)
    /\ Lower(SubSeq(s, i, i + Len(pat) - 1)) = pat

\* the patterns of extract_limited_html
script_re == [kind |-> "block", open |-> <<"<", "s", "c", "r", "i", "p", "t">>,
              close |-> <<"<", "/", "s", "c", "r", "i", "p", "t", ">">>]
style_re == [kind |-> "block", open |-> <<"<", "s", "t", "y", "l", "e">>,
             close |-> <<"<", "/", "s", "t", "y", "l", "e", ">">>]
noscript_re == [kind |-> "block", open |-> <<"<", "n", "o", "s", "c", "r", "i", "p", "t">>,
                close |-> <<"<", "/", "n", "o", "s", "c", "r", "i", "p", "t", ">">>]
comment_re == [kind |-> "comment", open |-> <<"<", "!", "-", "-">>, close |-> <<"-", "-", ">">>]
data_re == [kind |-> "data", open |-> <<"d", "a", "t", "a", "-">>, close |-> <<"\"">>]
blob_re == [kind |-> "blob", open |-> <<"{">>, close |-> <<"}">>]

\* <tag.*?>.*?</tag> with re.DOTALL: where the match that begins at i ends,
\* 0 when no match begins there.  The first .*? stops at the first > after
\* the tag name, the second at the first end tag after that >.
BlockEnd(s, i, re) ==
    LET gts == {g \in (i + Len(re.open))..Len(s) : s[g] = ">"}
    IN  IF ~MatchAt(s, i, re.open) \/ gts = {} THEN 0
        ELSE LET closes == {k \in (First(gts) + 1)..Len(s) : MatchAt(s, k, re.close)}
             IN  IF closes = {} THEN 0 ELSE First(closes) + Len(re.close) - 1

\* <!--.*?-->
CommentEnd(s, i, re) ==
    LET closes == {k \in (i + Len(re.open))..(Len(s) - 2) : SubSeq(s, k, k + 2) = re.close}
    IN  IF i + 3 > Len(s) \/ SubSeq(s, i, i + 3) # re.open \/ closes = {} THEN 0
        ELSE First(closes) + Len(re.close) - 1

\* data-[a-z-]+="[^"]*" with re.IGNORECASE: the name takes every letter and
\* hyphen that follows data-, and the value ends at the next quote
DataEnd(s, i, re) ==
    IF ~MatchAt(s, i, re.open) THEN 0
    ELSE LET after == i + Len(re.open)
             stop == First({k \in after..(Len(s) + 1) :
                               \/ k = Len(s) + 1
                               \/ s[k] \notin ascii_lowercase \cup ascii_uppercase \cup {"-"}})
             quotes == {q \in (stop + 2)..Len(s) : s[q] = "\""}
         IN  IF stop = after \/ stop + 1 > Len(s) \/ SubSeq(s, stop, stop + 1) # <<"=", "\"">>
                \/ quotes = {}
             THEN 0
             ELSE First(quotes)

\* \{[^}]{500,}\}
BlobEnd(s, i, re) ==
    LET closes == {k \in (i + 1)..Len(s) : s[k] = "}"}
    IN  IF i > Len(s) \/ s[i] # "{" \/ closes = {} THEN 0
        ELSE IF First(closes) - i - 1 < blob_min THEN 0
        ELSE First(closes)

MatchEnd(s, i, re) ==
    CASE re.kind = "block" -> BlockEnd(s, i, re)
      [] re.kind = "comment" -> CommentEnd(s, i, re)
      [] re.kind = "data" -> DataEnd(s, i, re)
      [] re.kind = "blob" -> BlobEnd(s, i, re)

RECURSIVE re_sub_from(_, _, _, _)
\* re.sub(re, repl, s), the matches before position from being replaced
re_sub_from(re, repl, s, from) ==
    LET starts == {i \in from..Len(s) : MatchEnd(s, i, re) # 0}
    IN  IF starts = {} THEN s
        ELSE re_sub_from(re, repl,
                         SubSeq(s, 1, First(starts) - 1) \o repl
                            \o SubSeq(s, MatchEnd(s, First(starts), re) + 1, Len(s)),
                         First(starts) + Len(repl))

re_sub(re, repl, s) == re_sub_from(re, repl, s, 1)

\* re.sub(r'\s+', ' ', s)
NotDropped(c) == c # ""
collapse_whitespace(s) ==
    SelectSeq([i \in 1..Len(s) |->
                  IF s[i] \notin Whitespace THEN s[i]
                  ELSE IF i > 1 /\ s[i - 1] \in Whitespace THEN "" ELSE " "],
              NotDropped)

\* clean before the slice
stripped(html) ==
    re_sub(blob_re, <<"{", "}">>,
      re_sub(data_re, <<>>,
        collapse_whitespace(
          re_sub(noscript_re, <<>>,
            re_sub(comment_re, <<>>,
              re_sub(style_re, <<>>,
                re_sub(script_re, <<>>, html)))))))

\* a variant of slice_to that returns the whole text
slice_to_end(s, limit) == s

\* s[:limit]
slice_to(s, limit) ==
    IF limit >= 0 THEN Prefix(s, limit)
    ELSE Prefix(s, IF Len(s) + limit > 0 THEN Len(s) + limit ELSE 0)

extract_limited_html(html, limit) ==
    IF html.none \/ html.v = <<>> THEN <<>>
    ELSE slice_to(stripped(html.v), limit)

\* the pieces the HTML texts of the model are made of
\* text outside every tag
PlainText == <<"p">>
\* a run of whitespace
Blanks == <<" ", "\n">>
\* a script block; x stands for the script
ScriptBlock == <<"<", "s", "c", "r", "i", "p", "t", ">", "x", "<", "/", "s", "c", "r", "i", "p", "t", ">">>
\* a script block with an attribute, its tags in mixed case
ScriptBlockUpper == <<"<", "S", "c", "R", "i", "P", "T", " ", "a", ">", "x", "<", "/", "S", "c", "R", "i", "P", "T", ">">>
\* a script block whose end tag has a space before its >, as HTML allows
ScriptBlockSpaced == <<"<", "s", "c", "r", "i", "p", "t", ">", "x", "<", "/", "s", "c", "r", "i", "p", "t", " ", ">">>
\* a style block; y stands for the style sheet
StyleBlock == <<"<", "s", "t", "y", "l", "e", ">", "y", "<", "/", "s", "t", "y", "l", "e", ">">>
\* a comment; z stands for its text
CommentBlock == <<"<", "!", "-", "-", "z", "-", "-", ">">>
\* a comment whose text names a script tag
CommentNamingScript == <<"<", "!", "-", "-", "z", "<", "s", "c", "r", "i", "p", "t", ">", "-", "-", ">">>
\* a noscript block
NoscriptBlock == <<"<", "n", "o", "s", "c", "r", "i", "p", "t", ">", "n", "<", "/", "n", "o", "s", "c", "r", "i", "p", "t", ">">>
\* a tag with a data attribute
DataAttribute == <<"<", "a", " ", "d", "a", "t", "a", "-", "i", "d", "=", "\"", "1", "\"", ">">>
\* a brace-delimited blob below the threshold
SmallBlob == <<"{", "j", "}">>
\* a brace-delimited blob above the threshold
LargeBlob == <<"{">> \o Rep("j", blob_min) \o <<"}">>

HtmlParts ==
    {PlainText, Blanks, ScriptBlock, ScriptBlockUpper, ScriptBlockSpaced, StyleBlock,
     CommentBlock, CommentNamingScript, NoscriptBlock, DataAttribute, SmallBlob, LargeBlob}

RECURSIVE Concat(_)
Concat(parts) == IF parts = <<>> THEN <<>> ELSE Head(parts) \o Concat(Tail(parts))

Limits == {-1, 0, 3, 10, default_limit}

ExtractLimitedHtml ==
    /\ extract.pc = "idle"
    /\ \E parts \in SeqsUpTo(HtmlParts, MaxParts), given \in BOOLEAN, limit \in Limits :
           /\ ~given => parts = <<>>
           /\ extract' = [pc |-> "returned", parts |-> parts,
                          html |-> IF given THEN Some(Concat(parts)) ELSE None,
                          limit |-> limit,
                          result |-> extract_limited_html(
                                        IF given THEN Some(Concat(parts)) ELSE None, limit)]
    /\ UNCHANGED <<ai_cache, ai_cache_order, ai, calls, handler, fetcher_vars, app_vars>>

HtmlNext == ExtractLimitedHtml

HtmlSpec == WrapperStart /\ [][HtmlNext]_vars

-----------------------------------------------------------------------------
(* smart_ai on model texts with fences: one call whose first request is    *)
(* answered, from its entry to its return, and a second call with the same *)
(* key.  The entry of a call in calls holds the model text as well.        *)

\* the lines the model texts are made of
FenceLines ==
    {Fence, Fence \o <<"j", "s", "o", "n">>, <<" ">> \o Fence, Fence \o <<" ", "x">>,
     <<"a">> \o Fence, <<"{", "}">>, <<>>}

FenceTexts == {Join(ls, "\n") : ls \in SeqsUpTo(FenceLines, MaxLines) \ {<<>>}}

\* the record of a finished smart_ai call, with the text the model gave
ContentFinished(st, content) ==
    [op |-> "smart_ai", content |-> content, cache_key |-> st.cache_key, key |-> st.key,
     requests |-> st.requests, hit |-> st.hit, stored |-> st.stored, ret |-> st.ret]

\* the call st, to which the model gave content if it was asked, has returned
FenceReturned(st, content) ==
    /\ ai_cache' = IF st.stored THEN cache_put(ai_cache, st.key, st.ret) ELSE ai_cache
    /\ ai_cache_order' = IF st.stored THEN order_put(ai_cache_order, st.key)
                          ELSE ai_cache_order
    /\ calls' = Append(calls, ContentFinished(st, content))
    /\ UNCHANGED <<ai, handler, extract, fetcher_vars, app_vars>>

SmartAiFenced ==
    /\ ai.pc = "idle"
    /\ calls = <<>>
    /\ \E content \in FenceTexts :
           FenceReturned(smart_ai_attempt(smart_ai_entry(ai_cache, CachePrompt, None,
                                                         Some(<<"k">>), max_retry_default,
                                                         2, 2000),
                                          Completion(Some(content))),
                         content)

SmartAiAgain ==
    /\ ai.pc = "idle"
    /\ Len(calls) = 1
    /\ <<"k">> \in DOMAIN ai_cache
    /\ FenceReturned(smart_ai_entry(ai_cache, CachePrompt, None, Some(<<"k">>),
                                    max_retry_default, 2, 2000),
                     <<>>)

FenceNext == SmartAiFenced \/ SmartAiAgain

FenceSpec == WrapperStart /\ [][FenceNext]_vars

-----------------------------------------------------------------------------
(* Properties of fetch_raw_html *)

Returned == fetch.pc = "done"

IsGet(e) == e.kind = "get"

Requests(st) == {i \in DOMAIN st.events : IsGet(st.events[i])}

\* the round in which event i happens: each round starts with a verified request
Round(st, i) == Cardinality({j \in Requests(st) : j <= i /\ st.events[j].verify})

\* the requests of an activation that were answered in the given way
Answered(st, class) == {i \in Requests(st) : st.events[i].outcome = class}

IsResultDict(r) ==
    /\ DOMAIN r = {"success", "status_code", "html", "error"}
    /\ r.success \in BOOLEAN
    /\ r.status_code = None \/ r.status_code \in {Some(c) : c \in Statuses}

\* C1: fetch_raw_html never raises: whatever the URL and whatever each
\* request meets, the call ends by returning a result dict, and a result
\* with success=false has html empty and a non-empty error.
C1_NeverRaises ==
    /\ fetch.pc \in {"idle", "verified", "fallback", "done"}
    /\ IsResultDict(fetch.result)
    /\ fetch.attempt < max_attempts \/ Returned
    /\ Returned /\ ~fetch.result.success =>
          fetch.result.html = <<>> /\ fetch.result.error # ""

\* a call that failed after its requests met transport errors without a message
C1_Witness ==
    /\ Returned /\ ~fetch.result.success
    /\ fetch.got = Raise("Exception", "")
    /\ fetch.attempt = max_attempts

\* C2: in every returned result success holds exactly when html is
\* non-empty; a successful result carries the body of a 200 response of at
\* least 50 characters, status_code 200 and an empty error.
C2_SuccessIffHtml ==
    Returned =>
        /\ fetch.result.success <=> fetch.result.html # <<>>
        /\ fetch.result.success =>
              /\ fetch.got.kind = "response" /\ fetch.got.status = 200
              /\ fetch.result.html = fetch.got.body
              /\ Len(fetch.result.html) >= 50
              /\ fetch.result.status_code = Some(200)
              /\ fetch.result.error = ""

C2_Witness ==
    Returned /\ fetch.result.success /\ Len(fetch.result.html) = 50 /\ fetch.attempt = 2

\* an empty or whitespace-only URL, or one whose scheme is not http or https
InputError(url) ==
    Strip(url) = <<>> \/ urlparse(url).scheme \notin {<<>>, http, https}

\* C3: a blank URL and a URL with a scheme other than http/https are
\* rejected before any request: success=false, non-empty error, status_code
\* None, no request issued and no sleep.
C3_InputErrorsRejected ==
    fetch.pc # "idle" /\ InputError(fetch.input) =>
        /\ Returned
        /\ ~fetch.result.success
        /\ fetch.result.error # ""
        /\ fetch.result.status_code = None
        /\ fetch.events = <<>>

C3_Witness ==
    /\ Returned /\ fetch.events = <<>>
    /\ urlparse(fetch.input).scheme = <<"f", "t", "p">>
    /\ fetch.result.error = "Invalid scheme: ftp. Only http and https are supported."

\* the other input error: a whitespace-only URL
C3_WitnessBlank ==
    Returned /\ fetch.input = <<" ", " ">> /\ fetch.result.error = "URL cannot be empty"

\* C4 as stated: for every URL u without a scheme, the call for u and the
\* call for "https://" + u issue the same requests and return equal results.
C4_AsStated ==
    fetch.pc = "done" /\ twin.pc = "done" =>
        /\ fetch.events = twin.events
        /\ fetch.result = twin.result

\* C4 amended: the same, for every URL u that is not blank and that
\* urlparse accepts (no ValueError) and finds no scheme in.
C4_SchemelessAsHttps ==
    (/\ fetch.pc # "idle"
     /\ Strip(fetch.input) # <<>>
     /\ ~urlparse(fetch.input).ValueError) =>
        /\ fetch.pc = twin.pc
        /\ fetch.events = twin.events
        /\ fetch.result = twin.result
        /\ twin.input = Https \o fetch.input

C4_Witness ==
    /\ fetch.input = <<"a", ".", "i", "o">>
    /\ Returned /\ twin.pc = "done"
    /\ Len(fetch.events) >= 5
    /\ fetch.events[1].url = Https \o <<"a", ".", "i", "o">>

\* C5: a verified request answered with a status other than 200 ends the
\* call at once: nothing follows it (no retry, no sleep), the result is
\* success=false with that status code and the error "HTTP <code>: <reason>";
\* answered so on the first request, the call made exactly one request.
C5_Non200Immediate ==
    \A i \in Requests(fetch) :
        fetch.events[i].verify /\ fetch.events[i].outcome = "non200" =>
            /\ i = Len(fetch.events)
            /\ Returned
            /\ fetch.result =
                  [success |-> FALSE, status_code |-> Some(fetch.got.status), html |-> <<>>,
                   error |-> "HTTP " \o ToString(fetch.got.status) \o ": "
                                 \o reason_phrase(fetch.got.status)]
            /\ fetch.got.status # 200
            /\ (i = 1 => Cardinality(Requests(fetch)) = 1)

C5_Witness ==
    /\ Returned /\ Len(fetch.events) = 1
    /\ fetch.result.status_code = Some(404)
    /\ fetch.result.error = "HTTP 404: Not Found"

\* C6: a 200 response shorter than 50 characters is never accepted: a sleep
\* follows it, then the next round's verified request while a round is
\* left; after the third round the call returns failure.  Three short
\* responses give success=false, html empty, error non-empty.
C6_ShortBodyRetried ==
    /\ \A i \in Answered(fetch, "short") :
          /\ i < Len(fetch.events) /\ fetch.events[i + 1] = Sleep
          /\ Round(fetch, i) < 3 =>
                \/ i + 1 = Len(fetch.events) /\ fetch.pc = "verified"
                \/ /\ i + 2 <= Len(fetch.events)
                   /\ IsGet(fetch.events[i + 2]) /\ fetch.events[i + 2].verify
                   /\ fetch.events[i + 2].url = fetch.events[i].url
          /\ Round(fetch, i) = 3 =>
                i + 1 = Len(fetch.events) /\ Returned /\ ~fetch.result.success
    /\ Cardinality(Answered(fetch, "short")) = 3 =>
          /\ Returned /\ ~fetch.result.success
          /\ fetch.result.html = <<>> /\ fetch.result.error # ""

C6_Witness ==
    /\ Cardinality(Answered(fetch, "short")) = 3
    /\ Len(fetch.got.body) = 49
    /\ fetch.result.error = "Empty or slow response from server"

\* C7 as stated: a call makes at most 3 verified and at most 3 unverified
\* requests, and a call that entered the rounds and ended neither in
\* success nor in a non-200 answer to a verified request returns
\* success=false with the last recorded error message, or "Failed after 3
\* attempts" when none was recorded.
C7_AsStated ==
    /\ Cardinality({i \in Requests(fetch) : fetch.events[i].verify}) <= 3
    /\ Cardinality({i \in Requests(fetch) : ~fetch.events[i].verify}) <= 3
    /\ (/\ Returned /\ fetch.events # <<>>
        /\ Answered(fetch, "ok") = {}
        /\ \A i \in Answered(fetch, "non200") : ~fetch.events[i].verify) =>
           /\ ~fetch.result.success
           /\ fetch.result.error = IF fetch.last_error.none THEN "Failed after 3 attempts"
                                    ELSE fetch.last_error.v

\* C8 as stated: a TLS or connect error on a verified request is followed,
\* in the same round and before the sleep, by exactly one request with
\* verification off; every request that opens a round is verified.
C8_AsStated ==
    /\ \A i \in Answered(fetch, "tls") :
          fetch.events[i].verify =>
              \/ i = Len(fetch.events) /\ fetch.pc = "fallback"
              \/ /\ i < Len(fetch.events)
                 /\ IsGet(fetch.events[i + 1]) /\ ~fetch.events[i + 1].verify
                 /\ i + 2 <= Len(fetch.events) => fetch.events[i + 2] = Sleep
    /\ \A i \in Requests(fetch) :
          IF i = 1 \/ fetch.events[i - 1] = Sleep
          THEN fetch.events[i].verify
          ELSE /\ ~fetch.events[i].verify
               /\ fetch.events[i - 1].verify /\ fetch.events[i - 1].outcome = "tls"

\* C9: a request, verified or not, answered 200 with at least 50 characters
\* is the last thing the call does: it returns success=true, status_code
\* 200, html equal to that body, error empty.
C9_SuccessImmediate ==
    \A i \in Answered(fetch, "ok") :
        /\ i = Len(fetch.events)
        /\ Returned
        /\ fetch.got.status = 200 /\ Len(fetch.got.body) >= 50
        /\ fetch.result = [success |-> TRUE, status_code |-> Some(200),
                           html |-> fetch.got.body, error |-> ""]

\* success on the unverified request of the second round
C9_Witness ==
    /\ Returned /\ fetch.result.success
    /\ ~Last(fetch.events).verify
    /\ Len(fetch.events) = 5
    /\ Len(fetch.result.html) = 51

-----------------------------------------------------------------------------
(* Properties of the AI wrapper *)

IsSmartAi(c) == c.op = "smart_ai"

\* calls i and j of smart_ai, i first, were given the same cache key, call i
\* did not find its key in the cache, and no clear_cache came between them
TwiceSameKey(i, j) ==
    /\ i < j
    /\ IsSmartAi(calls[i]) /\ IsSmartAi(calls[j])
    /\ ~calls[i].cache_key.none
    /\ calls[i].cache_key = calls[j].cache_key
    /\ ~calls[i].hit
    /\ \A k \in (i + 1)..(j - 1) : calls[k].op # "clear_cache"

\* C10 as stated: two smart_ai calls with the same cache key and no
\* clear_cache between them issue exactly one model request, and the second
\* returns the text of the first.  Stated here for the calls the sentence
\* has in view: a non-empty key, and a first call that issued a request.
C10_AsStated ==
    \A i, j \in DOMAIN calls :
        (TwiceSameKey(i, j) /\ calls[i].cache_key.v # <<>> /\ calls[i].requests >= 1) =>
            /\ calls[i].requests + calls[j].requests = 1
            /\ calls[j].ret = calls[i].ret

\* C10 amended: two smart_ai calls with the same non-empty cache key and no
\* clear_cache between them, the first of which obtained a model text: the
\* second call finds the key, issues no model request and returns the text
\* the first call stored and returned, whatever its other arguments; the
\* only requests are those of the first call, at least one and at most its
\* max_retry.
C10_CachedKeyServed ==
    \A i, j \in DOMAIN calls :
        (TwiceSameKey(i, j) /\ calls[i].cache_key.v # <<>> /\ calls[i].stored) =>
            /\ calls[j].hit /\ ~calls[j].stored
            /\ calls[j].requests = 0
            /\ calls[j].ret = calls[i].ret
            /\ calls[i].requests \in 1..MaxRetry
            /\ calls[j].key = calls[i].cache_key.v

C10_Witness ==
    /\ Len(calls) = 2
    /\ TwiceSameKey(1, 2)
    /\ calls[1].cache_key = Some(<<"k">>)
    /\ calls[1].stored /\ calls[1].requests = 2
    /\ calls[2].hit /\ calls[2].ret = <<"{", "}">>

\* the call in progress has met only failures: one request per attempt made,
\* and an attempt is left
C11_InProgress ==
    /\ ai.pc \in {"idle", "request"}
    /\ ai.pc = "request" =>
          /\ ai.requests = ai.attempt /\ ai.attempt < ai.max_retry
          /\ ~ai.hit /\ ~ai.stored

\* a finished call that found no cached text either stored the text of its
\* last request or returns the sentinel
C11_Finished ==
    \A i \in DOMAIN calls :
        IsSmartAi(calls[i]) /\ ~calls[i].hit =>
            IF calls[i].stored THEN calls[i].requests >= 1
            ELSE calls[i].ret = failed_after_retries

\* one step of a smart_ai call
C11_Step ==
    LET returns == calls' # calls /\ IsSmartAi(Last(calls'))
        c == Last(calls')
    IN  /\ (ai.pc = "request" /\ ai.caller = "" /\ returns) =>
              /\ c.requests = ai.requests + 1 /\ c.requests <= ai.max_retry
              /\ IF c.stored THEN ai_cache'[c.key] = c.ret
                 ELSE /\ c.requests = ai.max_retry
                      /\ c.ret = failed_after_retries
                      /\ ai_cache' = ai_cache
        /\ (ai.pc = "request" /\ ai.caller = "" /\ ~returns) =>
              /\ ai'.pc = "request"
              /\ ai'.requests = ai.requests + 1 /\ ai'.requests < ai.max_retry
              /\ ai_cache' = ai_cache
        /\ (ai.pc = "idle" /\ returns /\ ~c.hit) =>
              /\ c.requests = 0 /\ c.ret = failed_after_retries
              /\ ai_cache' = ai_cache

\* C11: smart_ai does not raise on a request failure.  On a cache miss it
\* issues one request per attempt and at most max_retry of them, and it
\* returns at the first request that yields a text; when every one of the
\* max_retry requests fails, or max_retry is 0, it returns the text
\* {"error": "AI failed after retries"} and stores nothing.
C11_RetriesThenSentinel == [](C11_InProgress /\ C11_Finished) /\ [][C11_Step]_vars

\* a call that made MaxRetry requests, all of which failed
C11_Witness ==
    /\ calls # <<>> /\ IsSmartAi(calls[1])
    /\ calls[1].requests = MaxRetry /\ ~calls[1].stored
    /\ calls[1].ret = failed_after_retries
    /\ ai_cache = <<>>

\* the step is a call of clear_cache
IsClearStep == calls' = Append(calls, Cleared)

\* the step is a call of get_cache_stats
IsStatsStep == Len(calls') = Len(calls) + 1 /\ Last(calls').op = "get_cache_stats"

\* every entry of the cache is still there after the step, with its text and
\* its place among the keys
EntriesKept ==
    /\ \A k \in DOMAIN ai_cache : k \in DOMAIN ai_cache' /\ ai_cache'[k] = ai_cache[k]
    /\ Len(ai_cache_order') >= Len(ai_cache_order)
    /\ SubSeq(ai_cache_order', 1, Len(ai_cache_order)) = ai_cache_order

\* C12: cache entries are never invalidated or overwritten automatically:
\* over every step of smart_ai, safe_json_ai and get_cache_stats a key that
\* is in the cache stays there with the same text, so the set of keys only
\* grows; the only step that removes an entry is a call of clear_cache.
C12_EntriesKept == [][~IsClearStep => EntriesKept]_vars

\* a safe_json_ai call stored a text under a new key, beside two older
\* entries, and a smart_ai call was then served an older entry
C12_Witness ==
    /\ Len(calls) = 2
    /\ calls[1].op = "safe_json_ai" /\ calls[1].stored /\ calls[1].key = <<"k">>
    /\ IsSmartAi(calls[2]) /\ calls[2].hit /\ calls[2].ret = WarmText
    /\ ai_cache_order = <<WarmKey(1), WarmKey(2), <<"k">>>>
    /\ ai_cache[<<"k">>] = <<"{", "}">>

\* what get_cache_stats reports agrees with the cache it was called on
StatsAgree(stats, cache) ==
    /\ stats.cached_prompts = Cardinality(DOMAIN cache)
    /\ Len(stats.cache_keys) <= 10
    /\ Len(stats.cache_keys) = 10 \/ Len(stats.cache_keys) = stats.cached_prompts
    /\ \A i \in DOMAIN stats.cache_keys : stats.cache_keys[i] \in DOMAIN cache
    /\ \A i, j \in DOMAIN stats.cache_keys : i # j => stats.cache_keys[i] # stats.cache_keys[j]

\* the call that follows a clear_cache finds nothing in the cache
C13_AfterClear ==
    \A i \in DOMAIN calls :
        (calls[i] = Cleared /\ i < Len(calls)) =>
            LET next == calls[i + 1]
            IN  CASE next.op = "get_cache_stats" ->
                        next.stats = [cached_prompts |-> 0, cache_keys |-> <<>>]
                  [] next.op \in {"smart_ai", "safe_json_ai"} ->
                        /\ ~next.hit
                        /\ next.requests >= 1 \/ next.ret = failed_after_retries
                  [] OTHER -> TRUE

\* right after a clear_cache the cache is empty; right after a
\* get_cache_stats its report agrees with the cache
C13_RightAfter ==
    (calls # <<>> /\ ai.pc = "idle") =>
        /\ Last(calls) = Cleared => ai_cache = <<>> /\ ai_cache_order = <<>>
        /\ Last(calls).op = "get_cache_stats" => StatsAgree(Last(calls).stats, ai_cache)

\* one step of clear_cache, of get_cache_stats, or of a call entered right
\* after clear_cache
C13_Step ==
    /\ IsClearStep => ai_cache' = <<>>
    /\ IsStatsStep => ai_cache' = ai_cache /\ ai_cache_order' = ai_cache_order
    /\ (calls # <<>> /\ Last(calls) = Cleared /\ ai.pc = "idle" /\ ai'.pc = "request") =>
          ai'.requests = 0 /\ ~ai'.hit

\* C13: clear_cache empties the cache whatever it holds: get_cache_stats
\* called next reports a count of 0 and no keys, and a smart_ai or
\* safe_json_ai call made next, for any key, is a miss that goes to the
\* model endpoint (it issues a request unless max_retry is 0).
\* get_cache_stats does not change the cache; its count is the number of
\* entries and it lists at most 10 keys, each of them in the cache.
C13_ClearAndStats == [](C13_AfterClear /\ C13_RightAfter) /\ [][C13_Step]_vars

\* get_cache_stats on a cache of 11 entries lists 10 keys; clear_cache
\* called next leaves the cache empty
C13_Witness ==
    /\ Len(calls) = 2
    /\ calls[1].op = "get_cache_stats"
    /\ calls[1].stats.cached_prompts = 11 /\ Len(calls[1].stats.cache_keys) = 10
    /\ calls[2] = Cleared
    /\ ai_cache = <<>>

-----------------------------------------------------------------------------
(* Properties of the endpoints *)

\* the j-th event of the request is a model call that was served from the
\* cache a text which no earlier call of the same request had stored
StaleAt(j) ==
    /\ handler.events[j].hit
    /\ ~\E i \in 3..(j - 1) :
            /\ handler.events[i].stored
            /\ handler.events[i].key = handler.events[j].key

\* C14: a /full-analysis request clears the cache first, then fetches, then
\* makes its model calls, and none of these calls is served a text that was
\* cached before the request arrived; when the fetch fails the request
\* returns with the cache cleared and no model call made.
C14_ClearedAtStart ==
    handler.endpoint = "full-analysis" =>
        /\ Len(handler.events) >= 2
        /\ handler.events[1].kind = "clear_cache"
        /\ handler.events[2].kind = "fetch"
        /\ \A j \in 3..Len(handler.events) :
               handler.events[j].kind = "model" /\ ~StaleAt(j)
        /\ ~handler.events[2].ok =>
               /\ handler.pc = "done"
               /\ Len(handler.events) = 2
               /\ ai_cache = <<>>

\* a /full-analysis request that arrived when the cache held the
\* competitor discovery of a /competitors request for the same url has
\* returned, having asked the model for the discovery again
C14_Witness ==
    /\ handler.endpoint = "full-analysis"
    /\ handler.pc = "done"
    /\ competitors_discover_key(handler.url) \in handler.before
    /\ \E j \in 3..Len(handler.events) :
           /\ handler.events[j].key = competitors_discover_key(handler.url)
           /\ ~handler.events[j].hit
           /\ handler.events[j].stored
    /\ \E j \in 3..Len(handler.events) :
           handler.events[j].key = comp_strategic_key(handler.url)

\* a /full-analysis request whose fetch failed has returned, the cache
\* having held entries when it arrived
C14_WitnessFetchFails ==
    /\ handler.endpoint = "full-analysis"
    /\ handler.pc = "done"
    /\ handler.before # {}
    /\ ~handler.events[2].ok

-----------------------------------------------------------------------------
(* Properties of safe_json_ai *)

\* the calls of safe_json_ai that have returned
SafeCalls == {i \in DOMAIN calls : calls[i].op = "safe_json_ai"}

\* the text smart_ai returned is the sentinel of the exhausted retries
AllFailed(c) == ~c.hit /\ ~c.stored /\ c.ret = failed_after_retries

Blank(text) == Strip(text) = <<>>

ErrorKey == <<"e", "r", "r", "o", "r">>
RawKey == <<"r", "a", "w">>

\* C15: whatever the model endpoint answered (failures only, an empty
\* text, a JSON object, array or scalar, prose, truncated JSON), the value
\* safe_json_ai returns is a dict.
C15_AlwaysDict == \A i \in SafeCalls : IsDict(calls[i].json)

\* a call whose model text was the array [1, 2] has returned
C15_Witness ==
    \E i \in SafeCalls :
        /\ calls[i].ret = <<"[", "1", ",", " ", "2", "]">>
        /\ calls[i].stored
        /\ IsDict(calls[i].json)

\* a call all of whose requests failed has returned
C15_WitnessAllFailed ==
    \E i \in SafeCalls : AllFailed(calls[i]) /\ calls[i].requests = max_retry_default

\* a call whose model text was a truncated object has returned
C15_WitnessTruncated ==
    \E i \in SafeCalls : calls[i].ret \in {p.text : p \in Truncations}

\* C16: when the text cannot be parsed, neither as it is nor after the
\* repair, safe_json_ai returns a dict with an error member and a raw member
\* that is the text, cut after its first 2000 characters.
C16_ErrorAndRaw ==
    \A i \in SafeCalls :
        (~Blank(calls[i].ret) /\ ~clean_ai_json(calls[i].ret).ok) =>
            /\ IsDict(calls[i].json)
            /\ HasKey(calls[i].json, ErrorKey)
            /\ HasKey(calls[i].json, RawKey)
            /\ calls[i].json.v[RawKey] = JStr(Prefix(calls[i].ret, 2000))
            /\ Len(calls[i].ret) <= 2000 => calls[i].json.v[RawKey] = JStr(calls[i].ret)

\* a call whose model text was "not json at all" has returned
C16_Witness ==
    \E i \in SafeCalls :
        /\ calls[i].ret = NotJson
        /\ HasKey(calls[i].json, ErrorKey)
        /\ calls[i].json.v[RawKey] = JStr(NotJson)

\* a call whose model text was longer than 2000 characters has returned
C16_WitnessLong ==
    \E i \in SafeCalls :
        /\ calls[i].ret = LongText
        /\ calls[i].json.v[RawKey] = JStr(Rep("x", 2000))

\* json.dumps of the well-formed dicts, by their positions
WellFormedText == [p \in WellFormed |-> json_dumps(WellFormedDict(p[1], p[2]))]

\* C17, as the claim states it: when the model text is the serialization
\* of a well-formed dict x, clean_ai_json yields x and safe_json_ai returns
\* x, also when strings of x hold fence markers or braces.
C17_AsStated ==
    \A i \in SafeCalls : \A p \in WellFormed :
        calls[i].ret = WellFormedText[p] =>
            /\ clean_ai_json(calls[i].ret).ok
            /\ clean_ai_json(calls[i].ret).v = WellFormedDict(p[1], p[2])
            /\ calls[i].json = WellFormedDict(p[1], p[2])

\* C18, as the claim states it: a text that lacks only the closing
\* brackets and braces of a JSON object is repaired, clean_ai_json
\* returning the completed object; so for {"a": 1, "b": [1,2.
C18_AsStated ==
    \A i \in SafeCalls :
        /\ calls[i].ret = CutExample =>
               /\ clean_ai_json(calls[i].ret).ok
               /\ clean_ai_json(calls[i].ret).v = json_loads(CutExampleWhole).v
        /\ \A p \in Truncations :
               calls[i].ret = p.text =>
                   /\ clean_ai_json(calls[i].ret).ok
                   /\ clean_ai_json(calls[i].ret).v = json_loads(p.full).v

\* C19, as the claim states it: when the model text is valid JSON,
\* safe_json_ai returns its value when it is an object, and otherwise the
\* dict with the value at data and the text at raw.
C19_AsStated ==
    \A i \in SafeCalls :
        json_loads(calls[i].ret).ok =>
            calls[i].json = IF IsDict(json_loads(calls[i].ret).v)
                            THEN json_loads(calls[i].ret).v
                            ELSE DataDict(json_loads(calls[i].ret).v, calls[i].ret)

\* the fallback of a call: the default_response of the caller, or the one
\* safe_json_ai binds when the caller gave none
Fallback(default_response) ==
    IF default_response.none THEN ai_unavailable ELSE default_response.v

\* C20, as the claim states it: when all requests of the call failed, or
\* the text is empty or cannot be parsed, safe_json_ai returns the fallback.
C20_AsStated ==
    \A i \in SafeCalls :
        (\/ AllFailed(calls[i])
         \/ Blank(calls[i].ret)
         \/ ~clean_ai_json(calls[i].ret).ok) =>
            calls[i].json = Fallback(calls[i].default_response)

-----------------------------------------------------------------------------
(* Further properties of fetch_raw_html *)

Hostname(url) ==
    LET netloc == urlparse(url).netloc
        hostinfo == SubSeq(netloc, RFind(netloc, "@") + 1, Len(netloc))
        colon == Find(hostinfo, ":")
    IN  Lower(IF colon = 0 THEN hostinfo ELSE SubSeq(hostinfo, 1, colon - 1))

\* the call has bound its timeout
TimeoutBound == fetch.pc \in {"verified", "fallback"} \/ fetch.events # <<>>

\* C27, as the claim states it: the timeout of the call is 45 exactly when
\* the hostname of its URL contains one of the patterns, and otherwise 20,
\* and every request of the call is issued with it.
C27_AsStated ==
    TimeoutBound =>
        /\ fetch.timeout =
              IF \E x \in replit_patterns : Contains(Hostname(fetch.url), x) THEN 45 ELSE 20
        /\ \A i \in Requests(fetch) : fetch.events[i].timeout = fetch.timeout

-----------------------------------------------------------------------------
(* Further properties of the AI wrapper *)

\* calls i and j of smart_ai, i first, were given no cache key, call i
\* missed the cache and stored the text it obtained, and no clear_cache
\* came between them
TwiceNoKey(i, j) ==
    /\ i < j
    /\ IsSmartAi(calls[i]) /\ IsSmartAi(calls[j])
    /\ ~Truthy(calls[i].cache_key) /\ ~Truthy(calls[j].cache_key)
    /\ ~calls[i].hit /\ calls[i].stored
    /\ \A k \in (i + 1)..(j - 1) : calls[k].op # "clear_cache"

FailedThenSameKey(i, j) ==
    /\ i < j
    /\ calls[i].op \in {"smart_ai", "safe_json_ai"}
    /\ calls[j].op \in {"smart_ai", "safe_json_ai"}
    /\ calls[i].key = calls[j].key
    /\ ~calls[i].hit /\ calls[i].ret = failed_after_retries
    /\ \A k \in (i + 1)..(j - 1) : ~(calls[k].stored /\ calls[k].key = calls[i].key)

\* a call that returns the sentinel leaves the cache as it was
C29_Step ==
    (/\ calls' # calls /\ Len(calls') = Len(calls) + 1
     /\ Last(calls').op \in {"smart_ai", "safe_json_ai"}
     /\ ~Last(calls').hit
     /\ Last(calls').ret = failed_after_retries) =>
        /\ ai_cache' = ai_cache
        /\ ai_cache_order' = ai_cache_order
        /\ ~Last(calls').stored

\* after a call that failed, the next call with its key misses the cache
\* again: it obtains a text from a request of its own or fails as well
C29_MissAgain ==
    \A i, j \in DOMAIN calls :
        FailedThenSameKey(i, j) =>
            /\ ~calls[i].stored
            /\ ~calls[j].hit
            /\ \/ calls[j].stored /\ calls[j].requests >= 1
               \/ ~calls[j].stored /\ calls[j].ret = failed_after_retries

\* C29: a smart_ai call that exhausted its retries stores nothing: the
\* cache is as it was before the call, and a later call with the same key
\* misses the cache and goes through its own attempts.
C29_FailureNotCached == []C29_MissAgain /\ [][C29_Step]_vars

\* a call that failed after MaxRetry requests, then a call with the same key
\* that obtained a text from its own request
C29_Witness ==
    /\ Len(calls) >= 2
    /\ FailedThenSameKey(1, 2)
    /\ calls[1].requests = MaxRetry
    /\ calls[2].stored /\ calls[2].requests >= 1
    /\ calls[2].key = <<"k">>

\* the dict of call c is an error dict made for a text the model gave
TextError(c) ==
    /\ c.op = "safe_json_ai"
    /\ HasKey(c.json, ErrorKey)
    /\ c.ret # failed_after_retries

\* calls i and j of safe_json_ai, i first, used the same key, and no
\* clear_cache came between them
SameKeyNoClear(i, j) ==
    /\ i < j
    /\ calls[i].op = "safe_json_ai" /\ calls[j].op = "safe_json_ai"
    /\ calls[i].key = calls[j].key
    /\ \A k \in (i + 1)..(j - 1) : calls[k].op # "clear_cache"

\* a text obtained from the model is in the cache when the call returns,
\* whatever it is
C30_Step ==
    (/\ calls' # calls /\ Len(calls') = Len(calls) + 1
     /\ Last(calls').op \in {"smart_ai", "safe_json_ai"}
     /\ ~Last(calls').hit
     /\ Last(calls').ret # failed_after_retries) =>
        /\ Last(calls').key \in DOMAIN ai_cache'
        /\ ai_cache'[Last(calls').key] = Last(calls').ret

\* once a call returned an error dict for a text of the model, the calls
\* with its key that follow, up to the next clear_cache, are served from
\* the cache and return the same dict
C30_SameError ==
    \A i, j \in DOMAIN calls :
        (SameKeyNoClear(i, j) /\ TextError(calls[i])) =>
            /\ calls[j].hit
            /\ calls[j].requests = 0
            /\ calls[j].json = calls[i].json

\* C30: a text obtained from the model is cached whatever it holds, an
\* empty or unparsable text included; after safe_json_ai has returned an
\* error dict for such a text, every later safe_json_ai call with the same
\* key returns that dict without a model request, until clear_cache.
C30_ErrorTextCached == []C30_SameError /\ [][C30_Step]_vars

\* a call that was given an empty text, then a call with the same key
C30_Witness ==
    /\ Len(calls) >= 2
    /\ SameKeyNoClear(1, 2)
    /\ calls[1].stored /\ calls[1].ret = <<>>
    /\ TextError(calls[1])
    /\ calls[2].hit /\ calls[2].json = calls[1].json

\* a call that was given an unparsable text, then a call with the same key
C30_WitnessUnparsable ==
    /\ Len(calls) >= 2
    /\ SameKeyNoClear(1, 2)
    /\ calls[1].stored /\ calls[1].ret = <<"n", "o">>
    /\ TextError(calls[1])
    /\ calls[2].hit /\ calls[2].json = calls[1].json

-----------------------------------------------------------------------------
(* Properties of the competitor stage of the endpoints                     *)

\* the request being served has made the strategic model call
StrategicCalled ==
    \E j \in DOMAIN handler.events :
        /\ handler.events[j].kind = "model"
        /\ handler.events[j].key = comp_strategic_key(handler.url)

\* a competitor fetch of the request being served succeeded
SomeFetched == \E i \in DOMAIN handler.fetched : handler.fetched[i].outcome = "success"

\* C24: in competitor_ai_check and full_analysis at most 2 competitor pages
\* are fetched per request, one after another in the order
\* discover_competitors_ai returned them; whatever a fetch does (it succeeds,
\* fails or raises) the next of the first two competitors is fetched too and
\* the request returns success true; the strategic model call is made only
\* if a competitor fetch succeeded.
C24_FetchLoop ==
    /\ Len(handler.fetched) <= 2
    /\ Len(handler.fetched) <= Len(handler.competitors)
    /\ \A i \in DOMAIN handler.fetched : handler.fetched[i].url = handler.competitors[i]
    /\ handler.pc \in {"strategic", "done"} =>
           /\ handler.pending = <<>>
           /\ \A i \in 1..2 : i <= Len(handler.competitors) => i <= Len(handler.fetched)
    /\ handler.pc = "done" /\ handler.fetched # <<>> => handler.response = success_response
    /\ handler.pc = "strategic" \/ StrategicCalled => SomeFetched
    /\ handler.pc = "done" /\ SomeFetched => StrategicCalled

\* a request for which three competitors were discovered has returned: the
\* first fetch raised, the second succeeded, the third competitor was not
\* fetched and the strategic call was made
C24_Witness ==
    /\ handler.pc = "done"
    /\ Len(handler.competitors) = 3
    /\ Len(handler.fetched) = 2
    /\ handler.fetched[1].outcome = "raised"
    /\ handler.fetched[2].outcome = "success"
    /\ StrategicCalled
    /\ handler.response = success_response

\* a request has returned success true after one competitor fetch failed
\* and the other raised, without the strategic call
C24_WitnessNoneFetched ==
    /\ handler.pc = "done"
    /\ Len(handler.fetched) = 2
    /\ handler.fetched[1].outcome = "failure"
    /\ handler.fetched[2].outcome = "raised"
    /\ ~StrategicCalled
    /\ handler.response = success_response

\* a fetch of a competitor raised while the request being served was in its
\* competitor stage
CollaboratorRaised ==
    \E i \in DOMAIN handler.fetched : handler.fetched[i].outcome = "raised"

\* the dict the request being served returned has success false and an error
\* message
ReturnedFailure ==
    /\ handler.response # None
    /\ ~handler.response.v.success
    /\ handler.response.v.error # ""

-----------------------------------------------------------------------------
(* Properties of extract_limited_html *)

\* C21, as the claim states it: whatever html and limit are,
\* extract_limited_html returns a string whose length does not exceed limit.
C21_AsStated ==
    extract.pc = "returned" => Len(extract.result) <= extract.limit

\* C21, amended: for every html, None and the empty string included, and
\* every limit that is not negative, extract_limited_html returns a string
\* whose length does not exceed limit.
C21_WithinLimit ==
    extract.pc = "returned" =>
        /\ extract.limit >= 0 => Len(extract.result) <= extract.limit
        /\ extract.html = None \/ extract.html = Some(<<>>) => extract.result = <<>>

\* a text whose stripped form is longer than the limit has been cut to the
\* limit
C21_Witness ==
    /\ extract.pc = "returned"
    /\ extract.html # None
    /\ extract.limit = 3
    /\ Len(extract.result) = 3
    /\ Len(stripped(extract.html.v)) > 3

\* extract_limited_html(None, limit) has returned the empty string
C21_WitnessNone ==
    /\ extract.pc = "returned"
    /\ extract.html = None
    /\ extract.result = <<>>

\* the script blocks among the pieces of the model's texts
ScriptBlocks == {ScriptBlock, ScriptBlockUpper, ScriptBlockSpaced}

\* the character c, which stands for the text of a block, is in the string
\* returned
Left(c) == \E i \in DOMAIN extract.result : extract.result[i] = c

\* C22: when the HTML given to extract_limited_html contains a script
\* block, the string returned contains none of the block's text, wherever
\* the block is, however many there are and whatever the limit.
C22_AsStated ==
    extract.pc = "returned" /\ (\E k \in DOMAIN extract.parts : extract.parts[k] \in ScriptBlocks)
        => ~Left("x")

\* where piece k of the text begins and ends
PartStart(k) == Len(Concat(SubSeq(extract.parts, 1, k - 1))) + 1
PartEnd(k) == Len(Concat(SubSeq(extract.parts, 1, k)))

\* the character that stands for the text of a script, style or comment
\* block closed by its end tag
BlockText(part) ==
    CASE part \in {ScriptBlock, ScriptBlockUpper} -> "x"
      [] part = StyleBlock -> "y"
      [] part \in {CommentBlock, CommentNamingScript} -> "z"
      [] OTHER -> ""

\* C23: extract_limited_html strips before it truncates, so that its result
\* is the first limit characters of the stripped text, and a script, style
\* or comment block that starts before position limit and ends after it
\* leaves no fragment in the result.  (Stated for the texts whose script
\* blocks all end with </script>.)
C23_AsStated ==
    /\ extract.pc = "returned"
    /\ extract.html # None
    /\ extract.limit >= 0
    /\ \A k \in DOMAIN extract.parts : extract.parts[k] # ScriptBlockSpaced
    => /\ extract.result = Prefix(stripped(extract.html.v), extract.limit)
       /\ \A k \in DOMAIN extract.parts :
              /\ BlockText(extract.parts[k]) # ""
              /\ PartStart(k) <= extract.limit
              /\ extract.limit < PartEnd(k)
              => ~Left(BlockText(extract.parts[k]))

-----------------------------------------------------------------------------
(* Further properties of safe_json_ai and of the repair of its text *)

\* C31: every failure of safe_json_ai has the same shape: whether all
\* requests of the call failed, the text was empty or the text could not be
\* parsed, the dict returned has an error member and a raw member.
C31_AsStated ==
    \A i \in SafeCalls :
        (\/ AllFailed(calls[i])
         \/ Blank(calls[i].ret)
         \/ ~clean_ai_json(calls[i].ret).ok) =>
            /\ HasKey(calls[i].json, ErrorKey)
            /\ HasKey(calls[i].json, RawKey)

-----------------------------------------------------------------------------
(* Further properties of smart_ai *)

\* the lines of the model text of call c, trimmed
TrimmedLines(c) == Split(Strip(c.content), "\n")

\* the trimmed lines of call c without the first, and without the last when
\* there is one after the first and it holds the fence marker alone
Unwrapped(c) ==
    SubSeq(TrimmedLines(c), 2,
           IF Len(TrimmedLines(c)) >= 2 /\ Strip(Last(TrimmedLines(c))) = Fence
           THEN Len(TrimmedLines(c)) - 1 ELSE Len(TrimmedLines(c)))

\* C32: smart_ai removes one fence wrapper and no more.  When the trimmed
\* model text starts with the fence marker, its first line is dropped, and
\* its last line is dropped only when that line is the fence marker alone
\* (white space around it aside); what is left is trimmed.  A text that
\* does not start with the fence marker is returned as it is, trimmed.  The
\* value stored in the cache is the value returned, and a later call with
\* the key returns it.
C32_OneWrapper ==
    \A i \in DOMAIN calls :
        /\ ~calls[i].hit =>
               /\ calls[i].stored
               /\ calls[i].ret =
                      IF StartsWith(Strip(calls[i].content), Fence)
                      THEN Strip(Join(Unwrapped(calls[i]), "\n"))
                      ELSE Strip(calls[i].content)
        /\ calls[i].key \in DOMAIN ai_cache
        /\ ai_cache[calls[i].key] = calls[i].ret

\* a text of two wrappers, one inside the other, has lost the outer one
\* only, and the second call has returned the stored text
C32_Witness ==
    /\ Len(calls) = 2
    /\ calls[1].content = Join(<<Fence, Fence, Fence>>, "\n")
    /\ calls[1].ret = Fence
    /\ calls[2].hit
    /\ calls[2].ret = Fence

\* a fenced text whose last line starts with the fence marker and goes on
\* has kept that line
C32_WitnessLastKept ==
    /\ calls # <<>>
    /\ calls[1].content = Join(<<Fence \o <<"j", "s", "o", "n">>, <<"{", "}">>, Fence \o <<" ", "x">>>>, "\n")
    /\ calls[1].ret = Join(<<<<"{", "}">>, Fence \o <<" ", "x">>>>, "\n")

\* a text that does not start with the fence marker has kept its fences
C32_WitnessUnfenced ==
    /\ calls # <<>>
    /\ calls[1].content = Join(<<<<"a">> \o Fence, <<>>, Fence>>, "\n")
    /\ calls[1].ret = calls[1].content

-----------------------------------------------------------------------------
(* fix_truncated_json on texts made of JSON tokens *)

MaxTokens == 4        \* tokens a text given to fix_truncated_json is made of

\* the tokens: the brackets, a string, a string cut short, colon, comma, blank
\* and a number
JsonTokens ==
    {<<"{">>, <<"[">>, <<"]">>, <<"}">>, <<"\"", "a", "\"">>, <<"\"", "x">>,
     <<":">>, <<",">>, <<" ">>, <<"1">>}

TruncatedTexts == {Concat(tokens) : tokens \in SeqsUpTo(JsonTokens, MaxTokens)}

FixTruncatedJson ==
    /\ extract.pc = "idle"
    /\ \E json_str \in TruncatedTexts :
           extract' = [pc |-> "returned", json_str |-> json_str,
                       result |-> fix_truncated_json(json_str)]
    /\ UNCHANGED <<ai_cache, ai_cache_order, ai, calls, handler, fetcher_vars, app_vars>>

FixNext == FixTruncatedJson

FixSpec == WrapperStart /\ [][FixNext]_vars

-----------------------------------------------------------------------------
(* Properties of fix_truncated_json *)

FixReturned == extract.pc = "returned"

\* the text in front of the closers fix_truncated_json appended in call c
Front(c) == drop_comma(close_dangling(c.json_str))

\* the closers fix_truncated_json appended in call c
Appended(c) == SubSeq(c.result, Len(Front(c)) + 1, Len(c.result))

\* the openers of s that no closer matches, by count
Unmatched(s, opener, closer) ==
    IF open_count(s, opener, closer) > 0 THEN open_count(s, opener, closer) ELSE 0

\* s without its trailing whitespace and one trailing comma
Uncomma(s) == IF EndsWith(RStrip(s), ",") THEN DropLast(RStrip(s)) ELSE RStrip(s)

\* fix_truncated_json put a synthetic empty string into the text of call c
Inserted(c) == close_dangling(c.json_str) # Uncomma(c.json_str)

\* C33: what fix_truncated_json appends to a text is as many ] as the text has
\* unmatched [ followed by as many } as it has unmatched {, nothing for a kind
\* with no unmatched opener or with more closers than openers.
C33_AsStated ==
    FixReturned =>
        Appended(extract) = Rep("]", Unmatched(extract.json_str, "[", "]"))
                            \o Rep("}", Unmatched(extract.json_str, "{", "}"))

\* s ends in a string value that was cut short: an odd number of quotes, the
\* last of them after a colon
DanglingValue(s) ==
    /\ Count(s, "\"") % 2 = 1
    /\ \E i \in 1..RFind(s, "\"") : s[i] = ":"

\* C34: fix_truncated_json inserts a synthetic empty string only into a text
\* that ends in a dangling string value after a colon, with an odd number of
\* quotes; otherwise the text in front of the appended closers is the input
\* without its trailing whitespace and one trailing comma.
C34_AsStated ==
    FixReturned =>
        /\ Inserted(extract) => DanglingValue(extract.json_str)
        /\ ~Inserted(extract) => Front(extract) = Uncomma(extract.json_str)

-----------------------------------------------------------------------------
(* Properties of the result of fetch_raw_html *)

\* the error text of line 109 for a status
HttpError(status) == "HTTP " \o ToString(status) \o ": " \o reason_phrase(status)

\* the requests of the call that were answered with a response
Responses(st) == Answered(st, "ok") \cup Answered(st, "short") \cup Answered(st, "non200")

\* the requests of the call whose failure was recorded as last_error: a
\* verified request that timed out or failed otherwise, and a fallback
\* request that raised
Recorded(st) ==
    {i \in Requests(st) :
        \/ st.events[i].verify /\ st.events[i].outcome \in {"timeout", "other"}
        \/ ~st.events[i].verify /\ st.events[i].outcome \in {"tls", "timeout", "other"}}

Latest(S) == CHOOSE i \in S : \A j \in S : j <= i

\* the error of the returned result is the text recorded for a request that
\* timed out or failed in transport
ErrorFromFailure ==
    /\ Recorded(fetch) # {}
    /\ fetch.last_error # None
    /\ fetch.result.error = fetch.last_error.v
    /\ fetch.result.error \notin {"", "Empty or slow response from server"}

-----------------------------------------------------------------------------
(* utils/browser_fetch.py: fetch_html_with_status.  The call is held in    *)
(* fetch; it has no handler around its loop, so it can end by raising:     *)
(* pc = "raised".                                                          *)

\* soup.prettify() for a text without markup: the text on a line of its own
prettify(text) == IF Strip(text) = <<>> THEN <<>> ELSE Strip(text) \o <<"\n">>

\* response.raise_for_status() passes: the status is 2xx
is_success(status) == status \in 200..299

\* the dict returned for a text that is long enough
browser_success(o) ==
    [success |-> TRUE, html |-> prettify(o.body), status_code |-> Some(o.status),
     error |-> None]

\* the handler of httpx.HTTPStatusError
browser_http_error(o) ==
    [success |-> FALSE, html |-> <<>>, status_code |-> Some(o.status),
     error |-> Some("HTTP error: " \o ToString(o.status))]

\* the return after the loop
browser_exhausted(st) ==
    returned(st, [success |-> FALSE, html |-> <<>>, status_code |-> None,
                  error |-> Some(OrElse(st.last_error, "Failed after 3 attempts"))])

\* time.sleep(1), then the next iteration of for attempt in range(3)
browser_next_attempt(st) ==
    LET slept == [st EXCEPT !.events = Append(st.events, Sleep), !.attempt = st.attempt + 1]
    IN  IF slept.attempt < max_attempts
        THEN [slept EXCEPT !.pc = "verified"]
        ELSE browser_exhausted(slept)

\* the first lines of fetch_html_with_status: the timeout is bound
fetch_html_with_status(url) ==
    [Idle EXCEPT !.input = url, !.url = url, !.pc = "verified",
                 !.timeout = IF is_replit_url(url) THEN replit_timeout ELSE default_timeout]

\* the test the fallback makes of its response: len(text) >= 50
fallback_accepts(o) == Len(o.body) >= MinBodyLen

\* one iteration of the loop up to its verified request and the handlers of
\* what it raised, tried in the order they are written
browser_verified_request(st, o) ==
    LET sent == issue(st, TRUE, o)
    IN  CASE o.kind = "response" /\ is_success(o.status) /\ Len(o.body) < MinBodyLen ->
                browser_next_attempt([sent EXCEPT !.last_error = Some("Empty or minimal response")])
          [] o.kind = "response" /\ is_success(o.status) /\ Len(o.body) >= MinBodyLen ->
                returned(sent, browser_success(o))
          [] o.kind = "response" /\ ~is_success(o.status) ->
                returned(sent, browser_http_error(o))
          [] o.kind = "TimeoutException" ->
                browser_next_attempt([sent EXCEPT !.last_error = Some(
                    "Request timed out (>" \o ToString(st.timeout) \o "s)")])
          [] o.kind \notin {"response", "TimeoutException"} /\ ssl_lookup_fails ->
                [sent EXCEPT !.pc = "raised"]
          [] o.kind \in {"SSLError", "ConnectError"} /\ ~ssl_lookup_fails ->
                [sent EXCEPT !.pc = "fallback"]
          [] OTHER ->
                browser_next_attempt([sent EXCEPT !.last_error = Some(o.msg)])

\* the handler of an SSL or connect error: client.get with verify=False and
\* no raise_for_status, then time.sleep(1) and the next iteration unless the
\* text was long enough
browser_fallback_request(st, o) ==
    LET sent == issue(st, FALSE, o)
    IN  IF o.kind = "response"
        THEN IF fallback_accepts(o)
             THEN returned(sent, browser_success(o))
             ELSE browser_next_attempt(sent)
        ELSE browser_next_attempt([sent EXCEPT !.last_error = Some(o.msg)])

\* what a request for url can meet: httpx refuses a URL that is not an http
\* or https URL before anything is sent
Answers(url) ==
    IF urlparse(url).ValueError \/ urlparse(url).scheme \notin {http, https}
    THEN {Raise("UnsupportedProtocol", "Request URL is missing an 'http://' or 'https://' protocol.")}
    ELSE Outcomes

FetchHtmlWithStatus ==
    /\ fetch.pc = "idle"
    /\ \E url \in Urls : fetch' = fetch_html_with_status(url)
    /\ UNCHANGED <<httpx_SSLError, twin, wrapper_vars, app_vars>>

BrowserVerifiedRequest ==
    /\ fetch.pc = "verified"
    /\ \E o \in Answers(fetch.url) : fetch' = browser_verified_request(fetch, o)
    /\ UNCHANGED <<httpx_SSLError, twin, wrapper_vars, app_vars>>

BrowserFallbackRequest ==
    /\ fetch.pc = "fallback"
    /\ \E o \in Answers(fetch.url) : fetch' = browser_fallback_request(fetch, o)
    /\ UNCHANGED <<httpx_SSLError, twin, wrapper_vars, app_vars>>

BrowserNext == FetchHtmlWithStatus \/ BrowserVerifiedRequest \/ BrowserFallbackRequest

BrowserSpec == Init /\ [][BrowserNext]_vars

-----------------------------------------------------------------------------
(* Properties of fetch_html_with_status *)

\* C36: fetch_html_with_status never raises; a result with success=true
\* comes from a response with a 2xx status and a body of at least 50
\* characters, whichever request it answered; a result with success=false
\* has html empty and a non-empty error.
C36_AsStated ==
    /\ fetch.pc # "raised"
    /\ Returned /\ fetch.result.success =>
          /\ fetch.got.kind = "response"
          /\ is_success(fetch.got.status)
          /\ Len(fetch.got.body) >= MinBodyLen
    /\ Returned /\ ~fetch.result.success =>
          /\ fetch.result.html = <<>>
          /\ fetch.result.error # None
          /\ fetch.result.error.v # ""

-----------------------------------------------------------------------------
(* Python float arithmetic, for int(completed / total * 100): a number is  *)
(* a string of binary digits, int_bits before the point and frac_bits      *)
(* after it; a float keeps mantissa_bits digits from its first 1.  Exact   *)
(* for total < 2^10.                                                       *)

mantissa_bits == 53
percent_scale == 100
max_build_steps == 50

int_bits == CHOOSE n \in 1..16 : 2^(n - 1) <= percent_scale /\ percent_scale < 2^n
frac_bits == mantissa_bits + 11

\* 2^i modulo t, by squaring: no intermediate value exceeds t * t
Pow2Mod(i, t) ==
    LET sq(x) == (x * x) % t
        s1 == 2 % t
        s2 == sq(s1)
        s4 == sq(s2)
        s8 == sq(s4)
        s16 == sq(s8)
        s32 == sq(s16)
        s64 == sq(s32)
        f(acc, bit, s) == IF (i \div bit) % 2 = 1 THEN (acc * s) % t ELSE acc
    IN  f(f(f(f(f(f(f(1 % t, 1, s1), 2, s2), 4, s4), 8, s8), 16, s16), 32, s32), 64, s64)

\* what is left of c after i digits of c / t beyond the point
Remainder(c, t, i) == ((c % t) * Pow2Mod(i, t)) % t

\* the digits of c / t by long division
DivBits(c, t) ==
    SubSeq([i \in 1..(int_bits + frac_bits) |->
               IF i <= int_bits THEN ((c \div t) \div 2^(int_bits - i)) % 2
               ELSE IF 2 * Remainder(c, t, i - int_bits - 1) >= t THEN 1 ELSE 0],
           1, int_bits + frac_bits)

\* the digits of c / t after those of DivBits are not all zero
DivInexact(c, t) == Remainder(c, t, frac_bits) # 0

\* a + b on digit strings of one length: a digit takes a carry when, below
\* it, a place where both have 1 is reached through places where one has 1
AddBits(a, b) ==
    LET n == Len(a)
        carry(i) == \E j \in (i + 1)..n :
                        /\ a[j] + b[j] = 2
                        /\ \A k \in (i + 1)..(j - 1) : a[k] + b[k] = 1
    IN  SubSeq([i \in 1..n |-> (a[i] + b[i] + IF carry(i) THEN 1 ELSE 0) % 2], 1, n)

\* a * 2^k
ShiftLeft(a, k) == SubSeq(a, k + 1, Len(a)) \o [i \in 1..k |-> 0]

\* the float nearest to a number: mantissa_bits digits from the first 1,
\* rounded to nearest, ties to even; sticky says that digits beyond the
\* string are not all zero
RoundToFloat(bits, sticky) ==
    LET ones == {i \in 1..Len(bits) : bits[i] = 1}
        lead == CHOOSE i \in ones : \A j \in ones : i <= j
        last == lead + mantissa_bits - 1
        rest == sticky \/ \E i \in (last + 2)..Len(bits) : bits[i] = 1
        up == /\ last < Len(bits)
              /\ bits[last + 1] = 1
              /\ rest \/ bits[last] = 1
        kept == SubSeq([i \in 1..Len(bits) |-> IF i <= last THEN bits[i] ELSE 0],
                       1, Len(bits))
        ulp == SubSeq([i \in 1..Len(bits) |-> IF i = last THEN 1 ELSE 0], 1, Len(bits))
    IN  IF ones = {} THEN bits
        ELSE IF up THEN AddBits(kept, ulp) ELSE kept

\* completed / total
FloatDiv(c, t) == RoundToFloat(DivBits(c, t), DivInexact(c, t))

\* q * 100, as q * 64 + q * 32 + q * 4
FloatTimes100(q) ==
    RoundToFloat(AddBits(AddBits(ShiftLeft(q, 6), ShiftLeft(q, 5)), ShiftLeft(q, 2)), FALSE)

\* int(v): the digits before the point
IntPart(bits) ==
    LET ones == {i \in 1..int_bits : bits[i] = 1}
        v[S \in SUBSET ones] ==
            IF S = {} THEN 0
            ELSE LET i == CHOOSE j \in S : TRUE IN 2^(int_bits - i) + v[S \ {i}]
    IN  v[ones]

\* int(completed / total * 100) for 0 <= completed <= total, total > 0
float_percent(completed, total) == IntPart(FloatTimes100(FloatDiv(completed, total)))

\* float_percent for the totals a workflow can have, computed once:
\* PercentTable[total][completed + 1]
PercentTable ==
    SubSeq([total \in 1..(max_build_steps) |->
               SubSeq([k \in 1..(total + 1) |-> float_percent(k - 1, total)], 1, total + 1)],
           1, max_build_steps)

\* int((completed / total * 100)) if total > 0 else 0
percent_of(completed, total) ==
    IF total > 0 THEN PercentTable[total][completed + 1] ELSE 0

-----------------------------------------------------------------------------
(* modules/guided_workflow.py.  A step is [order, id, status, area], a     *)
(* phase [id, name, steps]; of the workflow dict the model keeps steps     *)
(* (build_steps and steps are one list), phases, phase_progress, progress, *)
(* phase and testing_unlocked.  The dash of the phase names is written -.  *)

unlock_percent == 70

Least(S) == CHOOSE i \in S : \A j \in S : i <= j

Greatest(S) == CHOOSE i \in S : \A j \in S : j <= i

\* [s[i] for i in the set idx], in list order
Pick(s, idx) ==
    [k \in 1..Cardinality(idx) |->
        s[CHOOSE i \in idx : Cardinality({j \in idx : j < i}) = k - 1]]

IsCompleted(step) == step.status = "completed"

\* phase_map.get(area, ("B", "Phase B - Building", ...)) of generate_phases_from_steps
phase_map(area) ==
    CASE area \in {"backend", "frontend"} -> [id |-> "A", name |-> "Phase A - Foundation"]
      [] area = "database" -> [id |-> "B", name |-> "Phase B - Core Data"]
      [] area = "ai_logic" -> [id |-> "D", name |-> "Phase D - AI Agents"]
      [] area = "integration" -> [id |-> "E", name |-> "Phase E - Integration"]
      [] area = "ux" -> [id |-> "G", name |-> "Phase G - Polish"]
      [] OTHER -> [id |-> "B", name |-> "Phase B - Building"]

\* the phase ids of phase_map in sorted order
phase_ids == <<"A", "B", "D", "E", "G">>

\* generate_phases_from_steps(steps): one phase per phase id that a step
\* maps to, named by the first such step, holding the ids of its steps in
\* list order; the phases sorted by id
generate_phases_from_steps(steps) ==
    LET members(pid) == {i \in DOMAIN steps : phase_map(steps[i].area).id = pid}
        used == {k \in DOMAIN phase_ids : members(phase_ids[k]) # {}}
        group(pid) == [id |-> pid,
                       name |-> phase_map(steps[Least(members(pid))].area).name,
                       steps |-> Pick([i \in DOMAIN steps |-> steps[i].id], members(pid))]
    IN  Pick([k \in DOMAIN phase_ids |-> group(phase_ids[k])], used)

\* step_status.get(sid) == "completed": the dict holds, for an id, the
\* status of the last step with it
status_completed(steps, sid) ==
    LET with_id == {i \in DOMAIN steps : steps[i].id = sid}
    IN  with_id # {} /\ IsCompleted(steps[Greatest(with_id)])

\* calculate_phase_progress(phases, steps)
calculate_phase_progress(phases, steps) ==
    [p \in DOMAIN phases |->
        LET phase_steps == phases[p].steps
            total == Len(phase_steps)
            completed == Cardinality({k \in DOMAIN phase_steps :
                                         status_completed(steps, phase_steps[k])})
            percent == percent_of(completed, total)
        IN  [id |-> phases[p].id, name |-> phases[p].name, total |-> total,
             completed |-> completed, percent |-> percent,
             status |-> IF percent = 100 THEN "completed"
                        ELSE IF percent > 0 THEN "in_progress" ELSE "pending"]]

\* the dict returned when every phase is completed
phase_complete == [name |-> "Complete", id |-> "Z", percent |-> 100]

\* determine_current_phase(phase_progress)
determine_current_phase(phase_progress) ==
    LET open == {p \in DOMAIN phase_progress : phase_progress[p].status # "completed"}
    IN  IF open = {} THEN phase_complete
        ELSE [name |-> phase_progress[Least(open)].name,
              id |-> phase_progress[Least(open)].id,
              percent |-> phase_progress[Least(open)].percent]

\* determine_phase_by_percent(progress_percent)
determine_phase_by_percent(progress_percent) ==
    IF progress_percent < 30
    THEN [name |-> "Foundation", id |-> "A", percent |-> progress_percent]
    ELSE IF progress_percent < 70
    THEN [name |-> "Building", id |-> "B", percent |-> progress_percent]
    ELSE IF progress_percent < 100
    THEN [name |-> "Polish", id |-> "G", percent |-> progress_percent]
    ELSE phase_complete

\* get_current_step_number(steps)
get_current_step_number(steps) ==
    LET open == {i \in DOMAIN steps : ~IsCompleted(steps[i])}
    IN  IF open = {} THEN Len(steps) ELSE steps[Least(open)].order

\* get_next_step_id(steps)
get_next_step_id(steps) ==
    LET open == {i \in DOMAIN steps : ~IsCompleted(steps[i])}
    IN  IF open = {} THEN 0 ELSE steps[Least(open)].id

\* the progress dict both functions build
progress_of(steps) ==
    LET total == Len(steps)
        completed == Cardinality({i \in DOMAIN steps : IsCompleted(steps[i])})
    IN  [total |-> total, completed |-> completed, percent |-> percent_of(completed, total),
         current_step |-> get_current_step_number(steps),
         next_step |-> get_next_step_id(steps)]

\* generate_fallback_steps(idea, blueprint): a step per table, page and
\* endpoint of an old blueprint, or the one default step
generate_fallback_steps(blueprint) ==
    LET areas == Rep("database", blueprint.database) \o Rep("frontend", blueprint.pages)
                 \o Rep("backend", blueprint.endpoints)
    IN  IF areas = <<>>
        THEN <<[id |-> Some(1), status |-> Some("pending"), area |-> "backend"]>>
        ELSE [i \in DOMAIN areas |->
                 [id |-> Some(i), status |-> Some("pending"), area |-> areas[i]]]

\* no blueprint: create_workflow returns a failure
no_plan == [success |-> FALSE, workflow |-> None]

\* create_workflow(blueprint, idea)
create_workflow(blueprint) ==
    IF blueprint = None THEN no_plan
    ELSE LET given == IF blueprint.v.build_steps = <<>>
                      THEN generate_fallback_steps(blueprint.v)
                      ELSE blueprint.v.build_steps
             steps == [i \in DOMAIN given |->
                          [order |-> i,
                           id |-> IF given[i].id = None THEN i ELSE given[i].id.v,
                           status |-> IF given[i].status = None THEN "pending"
                                      ELSE given[i].status.v,
                           area |-> given[i].area]]
             phases == IF blueprint.v.phases = <<>> THEN generate_phases_from_steps(steps)
                       ELSE blueprint.v.phases
             phase_progress == calculate_phase_progress(phases, steps)
             progress == progress_of(steps)
         IN  [success |-> TRUE,
              workflow |-> Some([steps |-> steps, phases |-> phases,
                                 phase_progress |-> phase_progress,
                                 progress |-> progress,
                                 phase |-> determine_current_phase(phase_progress),
                                 testing_unlocked |-> progress.percent >= unlock_percent])]

\* a variant of set_status that sets every step with the id
set_status_all(steps, step_id, new_status) ==
    [i \in DOMAIN steps |->
        IF steps[i].id = step_id THEN [steps[i] EXCEPT !.status = new_status] ELSE steps[i]]

\* the loop of update_step_status: the first step with the id gets the status
set_status(steps, step_id, new_status) ==
    LET with_id == {i \in DOMAIN steps : steps[i].id = step_id}
    IN  IF with_id = {} THEN steps
        ELSE [steps EXCEPT ![Least(with_id)].status = new_status]

\* update_step_status(workflow, step_id, new_status)
update_step_status(w, step_id, new_status) ==
    LET steps == set_status(w.steps, step_id, new_status)
        progress == progress_of(steps)
        phase_progress == IF w.phases # <<>> THEN calculate_phase_progress(w.phases, steps)
                          ELSE w.phase_progress
    IN  [success |-> TRUE,
         workflow |-> Some([steps |-> steps, phases |-> w.phases,
                            phase_progress |-> phase_progress,
                            progress |-> progress,
                            phase |-> IF w.phases # <<>>
                                      THEN determine_current_phase(phase_progress)
                                      ELSE determine_phase_by_percent(progress.percent),
                            testing_unlocked |-> progress.percent >= unlock_percent])]

-----------------------------------------------------------------------------
(* The guided workflow: a blueprint is turned into a workflow, and steps   *)
(* of the workflow are given a status, one call after another.  workflow   *)
(* holds the last call and the dict it returned.                           *)

MaxSteps == 2         \* build steps of a blueprint, the full plan apart

Areas == {"backend", "ux"}

\* the steps of a blueprint: with an id or without, as the planner leaves them
PlanSteps ==
    {[id |-> id, status |-> Some("pending"), area |-> area] :
        id \in {None, Some(1), Some(2)}, area \in Areas}

Phase(id, steps) == [id |-> id, name |-> "Phase " \o id, steps |-> steps]

\* the phases of a blueprint: none, one phase of two steps, two phases of a
\* step each, a phase without steps before one with two, and a phase with
\* the id of a step the plan may not have
PlanPhases ==
    { <<>>,
      <<Phase("A", <<1, 2>>)>>,
      <<Phase("A", <<1>>), Phase("B", <<2>>)>>,
      <<Phase("A", <<>>), Phase("B", <<1, 2>>)>>,
      <<Phase("A", <<1, 2, 3>>)>> }

Plan(build_steps, phases, database, pages, endpoints) ==
    Some([build_steps |-> build_steps, phases |-> phases, database |-> database,
          pages |-> pages, endpoints |-> endpoints])

\* the longest plan the planner passes on: max_build_steps steps
FullPlan ==
    Plan([i \in 1..max_build_steps |-> [id |-> None, status |-> Some("pending"),
                                        area |-> "backend"]],
         <<>>, 0, 0, 0)

Blueprints ==
    {None, FullPlan}
    \cup {Plan(build_steps, phases, 0, 0, 0) :
              build_steps \in SeqsUpTo(PlanSteps, MaxSteps) \ {<<>>}, phases \in PlanPhases}
    \cup {Plan(<<>>, <<>>, database, pages, endpoints) :
              database \in 0..1, pages \in 0..1, endpoints \in 0..1}

\* the step ids a call is made with: the first ids, the id the workflow
\* names as its next step (0 when there is none)
StepIds(w) == {1, 2, 3, w.progress.next_step}

StepStatuses == {"completed", "pending"}

CreateWorkflow ==
    /\ workflow = None
    /\ \E blueprint \in Blueprints :
           workflow' = [op |-> "create_workflow", step_id |-> 0, new_status |-> "",
                        result |-> create_workflow(blueprint)]
    /\ UNCHANGED <<tasks, fetcher_vars, wrapper_vars>>

UpdateStepStatus ==
    /\ workflow # None
    /\ workflow.result.success
    /\ \E step_id \in StepIds(workflow.result.workflow.v), new_status \in StepStatuses :
           workflow' = [op |-> "update_step_status", step_id |-> step_id,
                        new_status |-> new_status,
                        result |-> update_step_status(workflow.result.workflow.v,
                                                      step_id, new_status)]
    /\ UNCHANGED <<tasks, fetcher_vars, wrapper_vars>>

WorkflowNext == CreateWorkflow \/ UpdateStepStatus

WorkflowSpec == WrapperStart /\ [][WorkflowNext]_vars

-----------------------------------------------------------------------------
(* Properties of the guided workflow *)

\* a workflow has been returned
HasWorkflow == workflow # None /\ workflow.result.workflow # None

TheWorkflow == workflow.result.workflow.v

Completed(steps) == {i \in DOMAIN steps : IsCompleted(steps[i])}

\* C37: the progress of a workflow agrees with its steps: total is their
\* number, completed the number of completed ones, percent the integer part
\* of 100 * completed / total (0 without steps), within 0..100, and
\* testing_unlocked holds exactly when percent is 70 or more.
C37_AsStated ==
    HasWorkflow =>
        LET steps == TheWorkflow.steps
            progress == TheWorkflow.progress
        IN  /\ progress.total = Len(steps)
            /\ progress.completed = Cardinality(Completed(steps))
            /\ progress.percent =
                  IF Len(steps) = 0 THEN 0
                  ELSE (100 * Cardinality(Completed(steps))) \div Len(steps)
            /\ progress.percent \in 0..100
            /\ TheWorkflow.testing_unlocked <=> progress.percent >= 70

\* the steps of a list that have the id
WithId(steps, step_id) == {i \in DOMAIN steps : steps[i].id = step_id}

\* the step of call update_step_status(w, step_id, new_status) that may change
Target(steps, step_id) ==
    IF WithId(steps, step_id) = {} THEN {} ELSE {Least(WithId(steps, step_id))}

\* C38: update_step_status gives the new status to the first step in list
\* order with the id and changes no other step; when no step has the id it
\* changes no step and leaves progress as it was; it returns success=true.
C38_OneStep ==
    [][HasWorkflow /\ workflow'.op = "update_step_status" =>
          LET before == TheWorkflow.steps
              after == workflow'.result.workflow.v.steps
              target == Target(before, workflow'.step_id)
          IN  /\ workflow'.result.success
              /\ DOMAIN after = DOMAIN before
              /\ \A i \in DOMAIN before \ target : after[i] = before[i]
              /\ \A i \in target :
                    after[i] = [before[i] EXCEPT !.status = workflow'.new_status]
              /\ target = {} =>
                    workflow'.result.workflow.v.progress = TheWorkflow.progress]_vars

\* a call has completed the first of two steps with one id, the second is
\* as it was
C38_Witness ==
    /\ HasWorkflow
    /\ workflow.op = "update_step_status"
    /\ workflow.new_status = "completed"
    /\ \E i, j \in WithId(TheWorkflow.steps, workflow.step_id) :
          /\ i < j
          /\ TheWorkflow.steps[i].status = "completed"
          /\ TheWorkflow.steps[j].status = "pending"

\* a call with an id that no step has
C38_WitnessNoStep ==
    /\ HasWorkflow
    /\ workflow.op = "update_step_status"
    /\ WithId(TheWorkflow.steps, workflow.step_id) = {}
    /\ TheWorkflow.progress.completed = 1

\* the steps a phase names: those with an id of its list
PhaseSteps(w, p) ==
    {i \in DOMAIN w.steps : \E k \in DOMAIN w.phases[p].steps :
                                 w.steps[i].id = w.phases[p].steps[k]}

\* the phases of which a step is not completed
Unfinished(w) == {p \in DOMAIN w.phases : PhaseSteps(w, p) \ Completed(w.steps) # {}}

\* C39: when every step of a workflow is completed its phase is the
\* terminal one, id "Z" and name "Complete", and progress.next_step is 0;
\* while a step is not completed its phase is the first phase in order that
\* is not fully completed.
C39_AsStated ==
    HasWorkflow =>
        LET w == TheWorkflow
        IN  IF Completed(w.steps) = DOMAIN w.steps
            THEN /\ w.phase.id = "Z"
                 /\ w.phase.name = "Complete"
                 /\ w.progress.next_step = 0
            ELSE /\ Unfinished(w) # {}
                 /\ w.phase.id = w.phases[Least(Unfinished(w))].id

-----------------------------------------------------------------------------
(* The server: main.py hands app to uvicorn.run, one process with one      *)
(* event loop.  Every endpoint is an async def without an await, so the    *)
(* loop runs a handler from its first line to its return before it looks   *)
(* at the next request; fetch_raw_html, the model requests and             *)
(* time.sleep block the loop.  tasks holds the requests in the order of    *)
(* their arrival, each with the position of its handler: the model call    *)
(* it is in (st) and the calls it has still to make (todo).                *)

MaxRequests == 2      \* requests that arrive in one behaviour

Endpoints == {"ux-ai", "seo", "full-analysis"}

\* a request that has arrived and waits for the loop
Queued(endpoint, url) ==
    [endpoint |-> endpoint, url |-> url, pc |-> "queued", call |-> "", todo |-> <<>>,
     st |-> Resting]

\* the requests whose handler has started and not returned
running(ts) == {i \in DOMAIN ts : ts[i].pc = "running"}

\* a variant of runnable for handlers that run on threads of their own
runnable_any(ts, i) == ts[i].pc = "queued"

\* the loop takes up request i: no handler is running, and the requests
\* before it have been taken up
runnable(ts, i) ==
    /\ ts[i].pc = "queued"
    /\ running(ts) = {}
    /\ \A j \in 1..(i - 1) : ts[j].pc # "queued"

\* the model calls of an endpoint, in the order the handler makes them,
\* up to discover_competitors_ai; issues are the basic_issues of the page
calls_of(endpoint, issues) ==
    IF endpoint = "ux-ai" THEN <<"ux">>
    ELSE IF endpoint = "seo" THEN <<"seo">>
    ELSE [i \in 1..Len(issues) |-> "improve"] \o <<"ux", "seo", "discover">>

\* the entry of a model call of a handler: smart_ai up to its cache check
model_call(cache, call, url) ==
    CASE call = "improve" ->
             smart_ai_entry(cache, missing_title, Some(CHEAP_MODEL),
                            Some(improve_task_key(missing_title)), max_retry_default, 2, 200)
      [] call = "ux" ->
             safe_json_ai_entry(cache, url, Some(DEFAULT_MODEL),
                                Some(ux_detailed_key(url)), 2000, 2, Some(ux_default))
      [] call = "seo" ->
             safe_json_ai_entry(cache, url, Some(DEFAULT_MODEL),
                                Some(seo_detailed_key(url)), 2000, 2, Some(seo_default))
      [] call = "discover" ->
             safe_json_ai_entry(cache, url, Some(DEFAULT_MODEL),
                                Some(competitors_discover_key(url)), 300, 2,
                                Some(discover_default))
      [] OTHER ->
             safe_json_ai_entry(cache, url, Some(DEFAULT_MODEL),
                                Some(comp_strategic_key(url)), 2500, 2,
                                Some(strategic_default))

\* the handler goes on to its next model call, or returns its response
begin_call(t, cache) ==
    IF t.todo = <<>> THEN [t EXCEPT !.pc = "answered", !.call = "", !.st = Resting]
    ELSE [t EXCEPT !.call = Head(t.todo), !.todo = Tail(t.todo),
                   !.st = model_call(cache, Head(t.todo), t.url)]

\* the handler of a request from its first line to its first model call:
\* full_analysis clears the cache, every handler fetches the page and
\* returns when the fetch did not succeed
start_handler(t, cache, o, issues) ==
    IF o.kind # "success" THEN [t EXCEPT !.pc = "answered"]
    ELSE begin_call([t EXCEPT !.pc = "running", !.todo = calls_of(t.endpoint, issues)],
                    cache)

\* the completions a call of a handler may get
TaskCompletions(call) ==
    IF call = "discover" THEN RunCompletions \cup {Completion(Some(DiscoveredText))}
    ELSE RunCompletions

\* a request arrives
Accept ==
    /\ Len(tasks) < MaxRequests
    /\ \E endpoint \in Endpoints, url \in RunUrls :
           tasks' = Append(tasks, Queued(endpoint, url))
    /\ UNCHANGED <<workflow, fetcher_vars, wrapper_vars>>

\* the loop starts the handler of a request
StartHandler ==
    \E i \in DOMAIN tasks, o \in FetchOutcomes, issues \in IssueLists :
        /\ runnable(tasks, i)
        /\ LET clears == tasks[i].endpoint = "full-analysis"
               cache == IF clears THEN full_analysis_cleared(ai_cache) ELSE ai_cache
           IN  /\ ai_cache' = cache
               /\ ai_cache_order' = IF clears THEN full_analysis_cleared(ai_cache_order)
                                     ELSE ai_cache_order
               /\ tasks' = [tasks EXCEPT ![i] = start_handler(tasks[i], cache, o, issues)]
        /\ UNCHANGED <<workflow, ai, calls, handler, extract, fetcher_vars>>

\* the model endpoint answers the request of a handler
TaskRequest ==
    \E i \in DOMAIN tasks :
        /\ tasks[i].pc = "running"
        /\ tasks[i].st.pc = "request"
        /\ \E o \in TaskCompletions(tasks[i].call) :
               LET st == smart_ai_attempt(tasks[i].st, o)
               IN  /\ tasks' = [tasks EXCEPT ![i].st = st]
                   /\ ai_cache' = IF st.stored THEN cache_put(ai_cache, st.key, st.ret)
                                  ELSE ai_cache
                   /\ ai_cache_order' = IF st.stored THEN order_put(ai_cache_order, st.key)
                                        ELSE ai_cache_order
        /\ UNCHANGED <<workflow, ai, calls, handler, extract, fetcher_vars>>

\* a model call of a handler has returned: the handler makes its next call
\* or returns.  After discover_competitors_ai the competitors are fetched,
\* and run_competitor_ai is called when the fetch of one succeeded.
TaskContinue ==
    \E i \in DOMAIN tasks, fetched \in BOOLEAN :
        /\ tasks[i].pc = "running"
        /\ tasks[i].st.pc = "done"
        /\ LET t == tasks[i]
               competitors == IF t.call = "discover"
                              THEN discovered(safe_json_ai_return(t.st.ret,
                                                                  t.st.default_response))
                              ELSE <<>>
               todo == IF competitors # <<>> /\ fetched THEN <<"strategic">> ELSE t.todo
           IN  tasks' = [tasks EXCEPT ![i] = begin_call([t EXCEPT !.todo = todo], ai_cache)]
        /\ UNCHANGED <<workflow, fetcher_vars, wrapper_vars>>

ServerNext == Accept \/ StartHandler \/ TaskRequest \/ TaskContinue

ServerSpec == WrapperStart /\ [][ServerNext]_vars

-----------------------------------------------------------------------------
(* Properties of the server *)

\* request i is between the cache check and the cache store of a smart_ai
\* call: the check missed, and the call has neither stored nor given up
Between(i) == tasks[i].pc = "running" /\ tasks[i].st.pc = "request"

\* one handler at a time
OneAtATime == Cardinality(running(tasks)) <= 1

\* no two calls for one key are both between check and store
NoTwoBetween ==
    \A i, j \in DOMAIN tasks :
        Between(i) /\ Between(j) /\ tasks[i].st.key = tasks[j].st.key => i = j

\* this step stores the completion of request i's call
Stores(i) ==
    /\ Between(i)
    /\ tasks'[i].st.pc = "done"
    /\ tasks'[i].st.stored

\* a completion is stored under a key the cache does not hold
StoreOnce ==
    \A i \in DOMAIN tasks : Stores(i) => tasks[i].st.key \notin DOMAIN ai_cache

\* an entry leaves the cache only when the cache is cleared, and an entry
\* that stays keeps its text
OnlyClearRemoves ==
    /\ DOMAIN ai_cache \subseteq DOMAIN ai_cache' \/ ai_cache' = <<>>
    /\ \A k \in DOMAIN ai_cache \cap DOMAIN ai_cache' : ai_cache'[k] = ai_cache[k]

\* C40: requests are handled one at a time, a handler running from start to
\* return before the next starts, so two smart_ai calls for one key are
\* never both between their cache check and their cache store, and between
\* two clears at most one completion is stored per key: a completion is
\* stored only under a key the cache does not hold, and a key leaves the
\* cache only by a clear.  (Handlers that could interleave would both miss
\* and both issue a model request: runnable_any.)
C40_OneAtATime ==
    /\ [](OneAtATime /\ NoTwoBetween)
    /\ [][StoreOnce /\ OnlyClearRemoves]_vars

\* a request waits while the handler of an earlier request for the same
\* endpoint and url is between the cache check and the store
C40_Witness ==
    \E i, j \in DOMAIN tasks :
        /\ Between(i)
        /\ tasks[i].st.requests > 0
        /\ tasks[j].pc = "queued"
        /\ tasks[j].endpoint = tasks[i].endpoint
        /\ tasks[j].endpoint # "full-analysis"
        /\ tasks[j].url = tasks[i].url

\* the later of two requests is served from the cache: its call is a hit
\* with no model request
C40_WitnessServed ==
    \E i, j \in DOMAIN tasks :
        /\ i < j
        /\ tasks[i].pc = "answered"
        /\ tasks[i].endpoint = "full-analysis"
        /\ tasks[j].pc = "running"
        /\ tasks[j].st.pc = "done"
        /\ tasks[j].st.hit
        /\ tasks[j].st.requests = 0

====
